---- MODULE Spec2Model ----
(***************************************************************************)
(* Model of the user management service: per-project tenant tables         *)
(* (projects manager), the tenant user store (project users manager), the  *)
(* start-up bootstrap (EnsureSuperUser) and the policy middleware.         *)
(*                                                                         *)
(* The state is the committed content of the MySQL database the managers   *)
(* share through one *gorm.DB handle, plus a record of the last call and   *)
(* its result.  Every action is one whole handler: it takes the call's     *)
(* arguments and the database statement (if any) that fails during it.     *)
(*                                                                         *)
(* Left out: the CreatedAt/TokenExpiry timestamps and the OAuth            *)
(* access/refresh token columns, which no handler modelled here reads;     *)
(* of UpdatedAt only whether it is later than CreatedAt is kept.           *)
(***************************************************************************)
EXTENDS Integers, Sequences, FiniteSets, TLC

VARIABLES
    projects,   \* rows of table projects (schemas.Project), tombstones included
    tables,     \* tenant tables: table name -> rows (schemas.ProjectUser)
    roles,      \* rows of table roles (schemas.Role)
    policies,   \* rows of table policies (schemas.Policy)
    users,      \* rows of the global table users (schemas.User)
    cookies,    \* per browser: its oauth_state cookie and its session cookie
    inflight,   \* CreateProjectUser requests between their lookup and insert
    lastCall    \* the last handler call: its arguments and what it returned

vars == <<projects, tables, roles, policies, users, cookies, inflight, lastCall>>

----------------------------------------------------------------------------
(* Bounds of the model *)

\* how many slugs, besides "default", callers of the projects manager use
MaxSlugs == 1
\* how many caller-chosen project slugs have the textual form of a UUID
MaxTenants == 2
\* how many distinct e-mail addresses callers use
MaxEmails == 1

----------------------------------------------------------------------------
(* uuid.UUID values are numbers; uuid.Nil is 0.  String() and uuid.Parse   *)
(* convert between a value and its 36-character text.                      *)

UUIDs == 0 .. 99

Digits == <<"0", "1", "2", "3", "4", "5", "6", "7", "8", "9">>

\* the 36-character text of every value
UUIDText ==
    [n \in UUIDs |->
        "00000000-0000-0000-0000-0000000000"
            \o Digits[(n \div 10) + 1] \o Digits[(n % 10) + 1]]

\* uuid.UUID.String()
UUIDString(n) == UUIDText[n]

\* uuid.Parse: the value whose text is s, or an error
ParseUUID(s) ==
    LET values == {n \in UUIDs : UUIDText[n] = s}
    IN  IF values # {}
        THEN [ok |-> TRUE, id |-> CHOOSE n \in values : TRUE]
        ELSE [ok |-> FALSE, id |-> 0]

\* UUID values that callers supply in requests; uuid.New() never returns one
CallerUUIDs == 80 .. 99

\* every ID stored in the database
UsedUUIDs ==
    {p.ID : p \in projects} \cup {r.ID : r \in roles} \cup {p.ID : p \in policies}
        \cup {u.ID : u \in users}
        \cup UNION {{u.ID : u \in tables[t]} : t \in DOMAIN tables}

\* uuid.New(): a value no row carries (the k-th new value of a call).  Which
\* value it is does not matter: the model takes the next number of a range
\* kept for the table the row goes to, so that no two rows share an ID
NewUUID(range, k) ==
    LET used == UsedUUIDs \cap range
        low == CHOOSE n \in range : \A m \in range : n <= m
    IN  (IF used = {} THEN low - 1 ELSE CHOOSE n \in used : \A m \in used : m <= n) + k

ProjectRange == 1 .. 9
RoleRange == 10 .. 19
PolicyRange == 20 .. 29
UserRange == 30 .. 39
ProjectUserRange == 40 .. 79

----------------------------------------------------------------------------
(* Error texts of the handlers *)

NoError == ""
ErrProjectExists == "project with this unique ID already exists"
ErrInternal == "internal server error"
ErrCreateProject == "failed to create project"
ErrCreateResources == "failed to create project resources"
ErrProjectNotFound == "project not found"
ErrUpdateProject == "failed to update project"
ErrDeleteProject == "failed to delete project"
ErrDeleteResources == "failed to delete project resources"
\* an error of the driver handed back as it is (tx.Error of Begin)
ErrDriver == "driver error"

NoFault == "none"

\* the record of a call: the handler, its arguments, the statement at which
\* the datastore failed during it (NoFault when none did), the error and the
\* ID of the row it returned (list: the IDs of the rows a listing returned);
\* for EnsureSuperUser ret is the number of rows the run inserted
Call(op, project, id, email, fault, err, ret) ==
    [op |-> op, project |-> project, id |-> id, email |-> email,
     fault |-> fault, err |-> err, ret |-> ret, list |-> {}]

----------------------------------------------------------------------------
(* gorm: a model with a gorm.DeletedAt column is soft-deleted, and every   *)
(* query on it sees only the rows whose deleted_at is NULL.  Unique        *)
(* indexes are MySQL's and count every stored row.                         *)

Live(rows) == {r \in rows : ~r.Deleted}

Tombstone(row) == [row EXCEPT !.Deleted = TRUE]

\* the datastore is MySQL, where CREATE TABLE, CREATE INDEX and DROP TABLE
\* commit the open transaction before they run: a later Rollback undoes
\* nothing that was written before the statement reached the server
ImplicitCommitOnDDL == TRUE

----------------------------------------------------------------------------
(* Projects manager *)

\* the name CreateProject gives the tenant table
CreateProjectTableName(uniqueID) == "project_" \o uniqueID \o "_users"

\* a DeleteProject that drops a table of another name
DeleteProjectTableName_Singular(uniqueID) == "project_" \o uniqueID \o "_user"

\* the name DeleteProject drops
DeleteProjectTableName(uniqueID) == "project_" \o uniqueID \o "_users"

\* Where("unique_id = ?", uniqueID).First(&existingProject)
ProjectByUniqueID(uniqueID) == {p \in Live(projects) : p.UniqueID = uniqueID}

\* First(&project, "id = ?", id)
ProjectByID(id) == {p \in Live(projects) : p.ID = id}

\* a unique index on projects.unique_id that never refuses a row
UniqueIDTaken_NoIndex(uniqueID) == FALSE

\* uniqueIndex on projects.unique_id
UniqueIDTaken(uniqueID) == \E p \in projects : p.UniqueID = uniqueID

CreateProjectFaults ==
    {NoFault, "check", "begin", "insert", "table_lost", "table",
     "index_email", "index_oauth", "commit"}

\* what is committed when CreateProject stops at the statement `at`, the
\* project row having been inserted in the transaction
CreateProjectCommitted(project, tableName, at) ==
    CASE at = "table_lost" ->
           [projects |-> projects, tables |-> tables]
      [] at = "table" ->
           IF ImplicitCommitOnDDL
           THEN [projects |-> projects \cup {project}, tables |-> tables]
           ELSE [projects |-> projects, tables |-> tables]
      [] at \in {"index_email", "index_oauth", "commit"} ->
           IF ImplicitCommitOnDDL
           THEN [projects |-> projects \cup {project},
                 tables |-> [t \in DOMAIN tables \cup {tableName} |->
                                IF t = tableName THEN {} ELSE tables[t]]]
           ELSE [projects |-> projects, tables |-> tables]
      [] OTHER ->
           [projects |-> projects \cup {project},
            tables |-> [t \in DOMAIN tables \cup {tableName} |->
                           IF t = tableName THEN {} ELSE tables[t]]]

CreateProject(name, description, uniqueID, fault) ==
    LET project == [ID |-> NewUUID(ProjectRange, 1), Name |-> name, Description |-> description,
                    UniqueID |-> uniqueID, Deleted |-> FALSE]
        tableName == CreateProjectTableName(uniqueID)
        \* the statement the call stops at, and the error it returns
        at == CASE fault = "check" -> "check"
                [] ProjectByUniqueID(uniqueID) # {} -> "exists"
                [] fault = "begin" -> "begin"
                [] fault = "insert" \/ UniqueIDTaken(uniqueID) -> "insert"
                [] fault = "table_lost" -> "table_lost"
                [] fault = "table" \/ tableName \in DOMAIN tables -> "table"
                [] fault \in {"index_email", "index_oauth", "commit"} -> fault
                [] OTHER -> "done"
        err == CASE at = "check" -> ErrInternal
                 [] at = "exists" -> ErrProjectExists
                 [] at = "begin" -> ErrDriver
                 [] at \in {"insert", "commit"} -> ErrCreateProject
                 [] at \in {"table_lost", "table", "index_email", "index_oauth"} ->
                      ErrCreateResources
                 [] OTHER -> NoError
        after == IF at \in {"check", "exists", "begin", "insert"}
                 THEN [projects |-> projects, tables |-> tables]
                 ELSE CreateProjectCommitted(project, tableName, at)
    IN  /\ projects' = after.projects
        /\ tables' = after.tables
        /\ lastCall' = Call("CreateProject", uniqueID, 0, "",
                            IF at = fault THEN fault ELSE NoFault, err,
                            IF err = NoError THEN project.ID ELSE 0)
        /\ UNCHANGED <<roles, policies, users, cookies, inflight>>

\* CreateProject as the steps of one request among concurrent ones.  The
\* first step is the lookup by unique_id and uuid.New(); a request that
\* passes it is in flight
CreateProjectCheck(request, name, description, uniqueID, fault) ==
    LET taken == (UsedUUIDs \cap ProjectRange) \cup {r.id : r \in inflight}
        id == CHOOSE n \in ProjectRange \ taken : \A m \in ProjectRange \ taken : n <= m
        err == CASE fault = "check" -> ErrInternal
                 [] ProjectByUniqueID(uniqueID) # {} -> ErrProjectExists
                 [] OTHER -> NoError
    IN  /\ \A r \in inflight : r.request # request
        /\ inflight' = IF err = NoError
                       THEN inflight \cup
                                {[request |-> request, name |-> name,
                                  description |-> description, uniqueID |-> uniqueID,
                                  id |-> id, stage |-> "checked"]}
                       ELSE inflight
        /\ lastCall' = Call("CreateProjectCheck", uniqueID, 0, "",
                            IF err = ErrInternal THEN fault ELSE NoFault, err, 0)
                       @@ [request |-> request]
        /\ UNCHANGED <<projects, tables, roles, policies, users, cookies>>

\* the second step: Begin and the INSERT of the project row.  While another
\* transaction holds an uncommitted row with the unique_id the statement
\* waits for it; a committed row with the unique_id makes it fail, and the
\* request rolls back and returns
CreateProjectInsert(r, fault) ==
    LET err == IF fault = "insert" \/ UniqueIDTaken(r.uniqueID)
               THEN ErrCreateProject ELSE NoError
    IN  /\ r \in inflight
        /\ r.stage = "checked"
        /\ \A o \in inflight : o.stage = "inserted" => o.uniqueID # r.uniqueID
        /\ inflight' = IF err = NoError
                       THEN (inflight \ {r}) \cup {[r EXCEPT !.stage = "inserted"]}
                       ELSE inflight \ {r}
        /\ lastCall' = Call("CreateProjectInsert", r.uniqueID, 0, "",
                            IF fault = "insert" THEN fault ELSE NoFault, err, 0)
                       @@ [request |-> r.request]
        /\ UNCHANGED <<projects, tables, roles, policies, users, cookies>>

\* the last step: CREATE TABLE, the two CREATE INDEX, Commit and the return
CreateProjectCreateTable(r, fault) ==
    LET project == [ID |-> r.id, Name |-> r.name, Description |-> r.description,
                    UniqueID |-> r.uniqueID, Deleted |-> FALSE]
        tableName == CreateProjectTableName(r.uniqueID)
        at == CASE fault = "table" \/ tableName \in DOMAIN tables -> "table"
                [] fault \in {"index_email", "index_oauth", "commit"} -> fault
                [] OTHER -> "done"
        err == CASE at = "commit" -> ErrCreateProject
                 [] at \in {"table", "index_email", "index_oauth"} -> ErrCreateResources
                 [] OTHER -> NoError
        after == CreateProjectCommitted(project, tableName, at)
    IN  /\ r \in inflight
        /\ r.stage = "inserted"
        /\ inflight' = inflight \ {r}
        /\ projects' = after.projects
        /\ tables' = after.tables
        /\ lastCall' = Call("CreateProjectCreateTable", r.uniqueID, 0, "",
                            IF at = fault THEN fault ELSE NoFault, err,
                            IF err = NoError THEN project.ID ELSE 0)
                       @@ [request |-> r.request]
        /\ UNCHANGED <<roles, policies, users, cookies>>

GetProjectFaults == {NoFault, "load"}

GetProject(id, fault) ==
    LET found == ProjectByID(id)
        err == CASE fault = "load" -> ErrInternal
                 [] found = {} -> ErrProjectNotFound
                 [] OTHER -> NoError
    IN  /\ lastCall' = Call("GetProject", "", id, "", fault, err,
                            IF err = NoError THEN id ELSE 0)
        /\ UNCHANGED <<projects, tables, roles, policies, users, cookies, inflight>>

UpdateProjectFaults == {NoFault, "load", "save"}

UpdateProject(id, name, description, fault) ==
    LET found == ProjectByID(id)
        err == CASE fault = "load" -> ErrInternal
                 [] found = {} -> ErrProjectNotFound
                 [] fault = "save" -> ErrUpdateProject
                 [] OTHER -> NoError
        project == CHOOSE p \in found : TRUE
        updated == [project EXCEPT !.Name = name, !.Description = description]
    IN  /\ projects' = IF err = NoError
                       THEN (projects \ {project}) \cup {updated}
                       ELSE projects
        /\ lastCall' = Call("UpdateProject", "", id, "",
                            IF err \in {ErrInternal, ErrUpdateProject} THEN fault ELSE NoFault, err,
                            IF err = NoError THEN id ELSE 0)
        /\ UNCHANGED <<tables, roles, policies, users, cookies, inflight>>

DeleteProjectFaults ==
    {NoFault, "begin", "load", "delete", "drop_lost", "drop", "commit"}

\* DROP TABLE IF EXISTS
DropTable(tableName) == [t \in DOMAIN tables \ {tableName} |-> tables[t]]

DeleteProject(id, fault) ==
    LET found == ProjectByID(id)
        at == CASE fault = "begin" -> "begin"
                [] fault = "load" -> "load"
                [] found = {} -> "notfound"
                [] fault \in {"delete", "drop_lost", "drop", "commit"} -> fault
                [] OTHER -> "done"
        err == CASE at = "begin" -> ErrDriver
                 [] at = "load" -> ErrInternal
                 [] at = "notfound" -> ErrProjectNotFound
                 [] at \in {"delete", "commit"} -> ErrDeleteProject
                 [] at \in {"drop_lost", "drop"} -> ErrDeleteResources
                 [] OTHER -> NoError
        project == CHOOSE p \in found : TRUE
        tableName == DeleteProjectTableName(project.UniqueID)
        deleted == (projects \ {project}) \cup {Tombstone(project)}
    IN  /\ projects' =
              CASE at \in {"begin", "load", "notfound", "delete", "drop_lost"} -> projects
                [] at = "drop" -> IF ImplicitCommitOnDDL THEN deleted ELSE projects
                [] at = "commit" -> IF ImplicitCommitOnDDL THEN deleted ELSE projects
                [] OTHER -> deleted
        /\ tables' =
              CASE at \in {"begin", "load", "notfound", "delete", "drop_lost", "drop"} -> tables
                [] at = "commit" ->
                     IF ImplicitCommitOnDDL THEN DropTable(tableName) ELSE tables
                [] OTHER -> DropTable(tableName)
        /\ lastCall' = Call("DeleteProject", "", id, "",
                            IF at = fault THEN fault ELSE NoFault, err, 0)
        /\ UNCHANGED <<roles, policies, users, cookies, inflight>>

----------------------------------------------------------------------------
(* Tenant user store (project users manager) *)

\* bcrypt.GenerateFromPassword: a salted one-way hash of the password
HashPassword(password) == "$2a$10$" \o password

\* a comparison of the stored text with the password as it is
PasswordMatches_Plain(hash, password) == hash = password

\* bcrypt.CompareHashAndPassword(hash, password) == nil
PasswordMatches(hash, password) == hash = "$2a$10$" \o password

ErrUserExists == "user with this email already exists in this project"
ErrProcessPassword == "failed to process password"
ErrInvalidProjectID == "invalid project ID format"
ErrCreateUser == "failed to create user"
ErrUserNotFound == "user not found in this project"
ErrUpdateUser == "failed to update user"
ErrDeleteUser == "failed to delete user"

\* a store that names the tenant table differently from CreateProject
getProjectUserTableName_Prefixed(projectID) == "project_users_" \o projectID

\* getProjectUserTableName
getProjectUserTableName(projectID) == "project_" \o projectID \o "_users"

\* the rows of a table; a statement on a table that does not exist fails
\* with an error of the driver
HasTable(tableName) == tableName \in DOMAIN tables

Rows(tableName) == IF HasTable(tableName) THEN tables[tableName] ELSE {}

\* a lookup by e-mail address that is not scoped to the tenant table
UserByEmail_AnyTable(tableName, email) ==
    {u \in Live(UNION {tables[t] : t \in DOMAIN tables}) : u.Email = email}

\* a lookup that compares the address with the provider's account id
UserByEmail_ByOAuthID(tableName, email) ==
    {u \in Live(Rows(tableName)) : u.OAuthID = email}

\* Table(tableName).Where("email = ?", email).First(&user)
UserByEmail(tableName, email) == {u \in Live(Rows(tableName)) : u.Email = email}

\* a lookup by id that is not scoped to the tenant table
UserByID_AnyTable(tableName, userID) ==
    {u \in Live(UNION {tables[t] : t \in DOMAIN tables}) : u.ID = userID}

\* a lookup by id that also finds soft-deleted rows
UserByID_WithDeleted(tableName, userID) == {u \in Rows(tableName) : u.ID = userID}

\* Table(tableName).Where("id = ?", userID).First(&user)
UserByID(tableName, userID) == {u \in Live(Rows(tableName)) : u.ID = userID}

\* a unique index that leaves the tombstoned rows out
EmailTaken_LiveOnly(tableName, email) == \E u \in Live(Rows(tableName)) : u.Email = email

\* uniqueIndex on the Email column of a tenant table
EmailTaken(tableName, email) == \E u \in Rows(tableName) : u.Email = email

\* the range uuid.New() draws from for a row of the table of this project
TenantRange(projectUUID) ==
    LET base == 40 + ((projectUUID % 4) * 10) IN base .. (base + 9)

\* A tenant row is [ID, Email, Password, FirstName, LastName, Active, OAuthID,
\* OAuthType, RoleId, ProjectId, Updated, Deleted]: Updated tells that
\* UpdatedAt is later than CreatedAt, Deleted that DeletedAt is set.

\* Table(tableName).Create(&user)
InsertUser(tableName, user) == [tables EXCEPT ![tableName] = @ \cup {user}]

\* a Save that writes the row into every tenant table
SaveUser_AllTables(tableName, user) ==
    [t \in DOMAIN tables |-> {u \in tables[t] : u.ID # user.ID} \cup {user}]

\* Table(tableName).Save(&user): the row with the primary key of user is
\* rewritten
SaveUser(tableName, user) ==
    [tables EXCEPT ![tableName] = {u \in @ : u.ID # user.ID} \cup {user}]

CreateProjectUserFaults == {NoFault, "find", "hash", "insert"}

CreateProjectUser(projectID, email, password, firstName, lastName, roleID, fault) ==
    LET tableName == getProjectUserTableName(projectID)
        projectUUID == ParseUUID(projectID)
        user == [ID |-> NewUUID(TenantRange(projectUUID.id), 1), Email |-> email,
                 Password |-> HashPassword(password),
                 FirstName |-> firstName, LastName |-> lastName, Active |-> TRUE,
                 OAuthID |-> "", OAuthType |-> "",
                 RoleId |-> roleID, ProjectId |-> projectUUID.id,
                 Updated |-> FALSE, Deleted |-> FALSE]
        at == CASE fault = "find" \/ ~HasTable(tableName) -> "find"
                [] UserByEmail(tableName, email) # {} -> "exists"
                [] fault = "hash" -> "hash"
                [] ~projectUUID.ok -> "parse"
                [] fault = "insert" \/ EmailTaken(tableName, email) -> "insert"
                [] OTHER -> "done"
        err == CASE at = "find" -> ErrInternal
                 [] at = "exists" -> ErrUserExists
                 [] at = "hash" -> ErrProcessPassword
                 [] at = "parse" -> ErrInvalidProjectID
                 [] at = "insert" -> ErrCreateUser
                 [] OTHER -> NoError
    IN  /\ tables' = IF err = NoError THEN InsertUser(tableName, user) ELSE tables
        /\ lastCall' = Call("CreateProjectUser", projectID, 0, email,
                            IF at = fault THEN fault ELSE NoFault, err,
                            IF err = NoError THEN user.ID ELSE 0)
        /\ UNCHANGED <<projects, roles, policies, users, cookies, inflight>>

FindFaults == {NoFault, "find"}

GetProjectUser(projectID, userID, fault) ==
    LET tableName == getProjectUserTableName(projectID)
        found == UserByID(tableName, userID)
        err == CASE fault = "find" \/ ~HasTable(tableName) -> ErrInternal
                 [] found = {} -> ErrUserNotFound
                 [] OTHER -> NoError
    IN  /\ lastCall' = Call("GetProjectUser", projectID, userID, "",
                            IF err = ErrInternal THEN fault ELSE NoFault, err,
                            IF err = NoError THEN (CHOOSE u \in found : TRUE).ID ELSE 0)
        /\ UNCHANGED <<projects, tables, roles, policies, users, cookies, inflight>>

GetProjectUserByEmail(projectID, email, fault) ==
    LET tableName == getProjectUserTableName(projectID)
        found == UserByEmail(tableName, email)
        err == CASE fault = "find" \/ ~HasTable(tableName) -> ErrInternal
                 [] found = {} -> ErrUserNotFound
                 [] OTHER -> NoError
    IN  /\ lastCall' = Call("GetProjectUserByEmail", projectID, 0, email,
                            IF err = ErrInternal THEN fault ELSE NoFault, err,
                            IF err = NoError THEN (CHOOSE u \in found : TRUE).ID ELSE 0)
        /\ UNCHANGED <<projects, tables, roles, policies, users, cookies, inflight>>

ListProjectUsers(projectID, fault) ==
    LET tableName == getProjectUserTableName(projectID)
        err == IF fault = "find" \/ ~HasTable(tableName) THEN ErrInternal ELSE NoError
    IN  /\ lastCall' =
              [Call("ListProjectUsers", projectID, 0, "",
                    IF err = ErrInternal THEN fault ELSE NoFault, err, 0)
                 EXCEPT !.list = IF err = NoError
                                 THEN {u.ID : u \in Live(Rows(tableName))} ELSE {}]
        /\ UNCHANGED <<projects, tables, roles, policies, users, cookies, inflight>>

UpdateProjectUserFaults == {NoFault, "find", "save"}

UpdateProjectUser(projectID, userID, firstName, lastName, active, fault) ==
    LET tableName == getProjectUserTableName(projectID)
        found == UserByID(tableName, userID)
        err == CASE fault = "find" \/ ~HasTable(tableName) -> ErrInternal
                 [] found = {} -> ErrUserNotFound
                 [] fault = "save" -> ErrUpdateUser
                 [] OTHER -> NoError
        user == CHOOSE u \in found : TRUE
        updated == [user EXCEPT !.FirstName = firstName, !.LastName = lastName,
                                !.Active = active, !.Updated = TRUE]
    IN  /\ tables' = IF err = NoError THEN SaveUser(tableName, updated) ELSE tables
        /\ lastCall' = Call("UpdateProjectUser", projectID, userID, "",
                            IF err \in {ErrInternal, ErrUpdateUser} THEN fault ELSE NoFault,
                            err, IF err = NoError THEN updated.ID ELSE 0)
        /\ UNCHANGED <<projects, roles, policies, users, cookies, inflight>>

DeleteProjectUserFaults == {NoFault, "find", "delete"}

DeleteProjectUser(projectID, userID, fault) ==
    LET tableName == getProjectUserTableName(projectID)
        found == UserByID(tableName, userID)
        err == CASE fault = "find" \/ ~HasTable(tableName) -> ErrInternal
                 [] found = {} -> ErrUserNotFound
                 [] fault = "delete" -> ErrDeleteUser
                 [] OTHER -> NoError
        user == CHOOSE u \in found : TRUE
    IN  /\ tables' = IF err = NoError THEN SaveUser(tableName, Tombstone(user)) ELSE tables
        /\ lastCall' = Call("DeleteProjectUser", projectID, userID, "",
                            IF err \in {ErrInternal, ErrDeleteUser} THEN fault ELSE NoFault,
                            err, 0)
        /\ UNCHANGED <<projects, roles, policies, users, cookies, inflight>>

OAuthUpsertFaults == {NoFault, "find", "save", "insert"}

\* an update that also activates the account and clears its password
UpdateOAuthInformation_ResetsAccount(existingUser, userInfo) ==
    [existingUser EXCEPT !.FirstName = userInfo.FirstName,
                         !.LastName = userInfo.LastName,
                         !.OAuthID = userInfo.ID,
                         !.OAuthType = userInfo.Provider,
                         !.Active = TRUE,
                         !.Password = "",
                         !.Updated = TRUE]

\* the fields CreateOrUpdateOAuthProjectUser assigns to the user it found
UpdateOAuthInformation(existingUser, userInfo) ==
    [existingUser EXCEPT !.FirstName = userInfo.FirstName,
                         !.LastName = userInfo.LastName,
                         !.OAuthID = userInfo.ID,
                         !.OAuthType = userInfo.Provider,
                         !.Updated = TRUE]

\* what CreateOrUpdateOAuthProjectUser does to the tenant tables and returns
OAuthUpsert(projectID, userInfo, roleID, fault) ==
    LET tableName == getProjectUserTableName(projectID)
        \* any error of the lookup, not only "record not found", leads to the
        \* creation of a new user
        found == IF fault = "find" THEN {} ELSE UserByEmail(tableName, userInfo.Email)
        existingUser == CHOOSE u \in found : TRUE
        updated == UpdateOAuthInformation(existingUser, userInfo)
        projectUUID == ParseUUID(projectID)
        newUser == [ID |-> NewUUID(TenantRange(projectUUID.id), 1),
                    Email |-> userInfo.Email, Password |-> "",
                    FirstName |-> userInfo.FirstName, LastName |-> userInfo.LastName,
                    Active |-> TRUE, OAuthID |-> userInfo.ID,
                    OAuthType |-> userInfo.Provider,
                    RoleId |-> roleID, ProjectId |-> projectUUID.id,
                    Updated |-> FALSE, Deleted |-> FALSE]
        at == CASE found # {} /\ fault = "save" -> "save"
                [] found # {} -> "updated"
                [] ~projectUUID.ok -> "parse"
                [] \/ fault = "insert"
                   \/ ~HasTable(tableName)
                   \/ EmailTaken(tableName, userInfo.Email) -> "insert"
                [] OTHER -> "created"
        err == CASE at = "save" -> ErrUpdateUser
                 [] at = "parse" -> ErrInvalidProjectID
                 [] at = "insert" -> ErrCreateUser
                 [] OTHER -> NoError
    IN  [tables |-> CASE at = "updated" -> SaveUser(tableName, updated)
                      [] at = "created" -> InsertUser(tableName, newUser)
                      [] OTHER -> tables,
         fault |-> IF at = fault \/ (fault = "find" /\ err # NoError)
                   THEN fault ELSE NoFault,
         err |-> err,
         id |-> CASE at = "updated" -> updated.ID
                  [] at = "created" -> newUser.ID
                  [] OTHER -> 0]

CreateOrUpdateOAuthProjectUser(projectID, userInfo, roleID, fault) ==
    LET upsert == OAuthUpsert(projectID, userInfo, roleID, fault)
    IN  /\ tables' = upsert.tables
        /\ lastCall' = Call("CreateOrUpdateOAuthProjectUser", projectID, 0, userInfo.Email,
                            upsert.fault, upsert.err, upsert.id)
                       @@ [role |-> roleID, info |-> userInfo]
        /\ UNCHANGED <<projects, roles, policies, users, cookies, inflight>>

\* CreateProjectUser as two steps, for requests that run at the same time.
\* The first is the lookup by e-mail with the hashing and the parsing that
\* follow it; a request that passes them is in flight until its INSERT.
CreateProjectUserLookup(request, projectID, email, password, firstName, lastName, roleID, fault) ==
    LET tableName == getProjectUserTableName(projectID)
        projectUUID == ParseUUID(projectID)
        at == CASE fault = "find" \/ ~HasTable(tableName) -> "find"
                [] UserByEmail(tableName, email) # {} -> "exists"
                [] fault = "hash" -> "hash"
                [] ~projectUUID.ok -> "parse"
                [] OTHER -> "insert"
        err == CASE at = "find" -> ErrInternal
                 [] at = "exists" -> ErrUserExists
                 [] at = "hash" -> ErrProcessPassword
                 [] at = "parse" -> ErrInvalidProjectID
                 [] OTHER -> NoError
    IN  /\ \A r \in inflight : r.request # request
        /\ inflight' = IF at = "insert"
                       THEN inflight \cup
                                {[request |-> request, projectID |-> projectID,
                                  email |-> email, password |-> password,
                                  firstName |-> firstName, lastName |-> lastName,
                                  roleID |-> roleID]}
                       ELSE inflight
        /\ lastCall' = Call("CreateProjectUserLookup", projectID, 0, email,
                            IF at = fault THEN fault ELSE NoFault, err, 0)
                       @@ [request |-> request]
        /\ UNCHANGED <<projects, tables, roles, policies, users, cookies>>

\* the second step: the INSERT of a request in flight, and its return
CreateProjectUserInsert(r, fault) ==
    LET tableName == getProjectUserTableName(r.projectID)
        projectUUID == ParseUUID(r.projectID)
        user == [ID |-> NewUUID(TenantRange(projectUUID.id), 1), Email |-> r.email,
                 Password |-> HashPassword(r.password),
                 FirstName |-> r.firstName, LastName |-> r.lastName, Active |-> TRUE,
                 OAuthID |-> "", OAuthType |-> "",
                 RoleId |-> r.roleID, ProjectId |-> projectUUID.id,
                 Updated |-> FALSE, Deleted |-> FALSE]
        err == IF \/ fault = "insert"
                  \/ ~HasTable(tableName)
                  \/ EmailTaken(tableName, r.email)
               THEN ErrCreateUser ELSE NoError
    IN  /\ r \in inflight
        /\ inflight' = inflight \ {r}
        /\ tables' = IF err = NoError THEN InsertUser(tableName, user) ELSE tables
        /\ lastCall' = Call("CreateProjectUserInsert", r.projectID, 0, r.email,
                            IF fault = "insert" THEN fault ELSE NoFault, err,
                            IF err = NoError THEN user.ID ELSE 0)
                       @@ [request |-> r.request]
        /\ UNCHANGED <<projects, roles, policies, users, cookies>>

----------------------------------------------------------------------------
(* Start-up bootstrap *)

SuperAdminRoleName == "SuperAdmin"

\* DefaultSuperUserConfig()
DefaultSuperUserConfig ==
    [Email |-> "admin@example.com", Password |-> "superuser123",
     FirstName |-> "Super", LastName |-> "User"]

\* the names of the three policies EnsureSuperUser builds
SuperPolicyNames == <<"AllPoliciesAccess", "AllRolesAccess", "AllProjectsAccess">>

\* the three policies EnsureSuperUser builds for the super role
SuperPolicy(i, roleID, k) ==
    [ID |-> NewUUID(PolicyRange, k),
     Name |-> SuperPolicyNames[i],
     Resource |-> <<"policies", "roles", "projects">>[i],
     Action |-> "*", Effect |-> "allow", RolesId |-> roleID, Deleted |-> FALSE]

\* a lookup of the super role under the name of another role
SuperRoleByName_Admin == {r \in Live(roles) : r.Name = "Admin"}

\* Where("name = ?", "SuperAdmin").First(&superRole)
SuperRoleByName == {r \in Live(roles) : r.Name = SuperAdminRoleName}

EnsureSuperUserFaults ==
    {NoFault, "role_find", "role_create", "policy_find", "policy_create",
     "project_find", "project_create", "user_find", "hash", "user_create"}

EnsureSuperUser(config, fault, faultPolicy) ==
    LET roleFound == SuperRoleByName
        newRole == [ID |-> NewUUID(RoleRange, 1), Name |-> SuperAdminRoleName, Deleted |-> FALSE]
        superRole == IF roleFound # {} THEN CHOOSE r \in roleFound : TRUE ELSE newRole
        policyFound(i) ==
            {p \in Live(policies) : p.Name = SuperPolicyNames[i]}
        \* how many policies the call has inserted before policy i
        made(i) == Cardinality({j \in 1 .. (i - 1) : policyFound(j) = {}})
        projectFound == {p \in Live(projects) : p.UniqueID = "default"}
        newProject == [ID |-> NewUUID(ProjectRange, 1), Name |-> "Default Project",
                       Description |-> "Default project for system administration",
                       UniqueID |-> "default", Deleted |-> FALSE]
        defaultProject ==
            IF projectFound # {} THEN CHOOSE p \in projectFound : TRUE ELSE newProject
        userFound == {u \in Live(users) : u.Email = config.Email}
        superUser == [ID |-> NewUUID(UserRange, 1), Email |-> config.Email,
                      Password |-> HashPassword(config.Password),
                      FirstName |-> config.FirstName, LastName |-> config.LastName,
                      Active |-> TRUE, OAuthID |-> "", OAuthType |-> "",
                      RoleId |-> superRole.ID, ProjectId |-> defaultProject.ID,
                      Deleted |-> FALSE]
        \* the steps: 1 the role, 2..4 the three policies, 5 the default
        \* project, 6 the super user.
        \* whether step k returns an error: its lookup fails, or the row is
        \* missing and its insert fails (by the fault, or by the unique index
        \* on a name that a tombstoned row still holds)
        fails(k) ==
            CASE k = 1 ->
                   \/ fault = "role_find"
                   \/ roleFound = {} /\ (\/ fault = "role_create"
                                         \/ \E r \in roles : r.Name = newRole.Name)
              [] k \in 2 .. 4 ->
                   \/ fault = "policy_find" /\ faultPolicy = k - 1
                   \/ policyFound(k - 1) = {}
                        /\ (\/ fault = "policy_create" /\ faultPolicy = k - 1
                            \/ \E p \in policies :
                                  p.Name = SuperPolicyNames[k - 1])
              [] k = 5 ->
                   \/ fault = "project_find"
                   \/ projectFound = {} /\ (\/ fault = "project_create"
                                            \/ UniqueIDTaken("default"))
              [] OTHER ->
                   \/ fault = "user_find"
                   \/ userFound = {} /\ (\/ fault \in {"hash", "user_create"}
                                         \/ \E u \in users : u.Email = config.Email)
        \* the first step that returns an error, 7 when none does
        stop == CASE fails(1) -> 1 [] fails(2) -> 2 [] fails(3) -> 3
                  [] fails(4) -> 4 [] fails(5) -> 5 [] fails(6) -> 6 [] OTHER -> 7
        \* the number of rows the call inserts (one "Created ..." log line each)
        created ==
            Cardinality({k \in 1 .. 6 :
                /\ stop > k
                /\ CASE k = 1 -> roleFound = {}
                     [] k \in 2 .. 4 -> policyFound(k - 1) = {}
                     [] k = 5 -> projectFound = {}
                     [] OTHER -> userFound = {}})
    IN  /\ roles' = IF roleFound = {} /\ stop > 1 THEN roles \cup {newRole} ELSE roles
        /\ policies' = policies \cup
              {SuperPolicy(i, superRole.ID, made(i) + 1) :
                 i \in {j \in 1 .. 3 : policyFound(j) = {} /\ stop > j + 1}}
        /\ projects' = IF projectFound = {} /\ stop > 5
                       THEN projects \cup {newProject} ELSE projects
        /\ users' = IF userFound = {} /\ stop > 6 THEN users \cup {superUser} ELSE users
        /\ lastCall' = Call("EnsureSuperUser", "default", 0, config.Email,
                            IF stop < 7 /\ fault # NoFault THEN fault ELSE NoFault,
                            IF stop = 7 THEN NoError ELSE ErrDriver, created)
        /\ UNCHANGED <<tables, cookies, inflight>>

----------------------------------------------------------------------------
(* Roles manager, users manager and the policy middleware *)

ErrRoleExists == "role with this name already exists"
ErrCreateRole == "failed to create role"
ErrRoleNotFound == "role not found"
ErrRoleInUse == "cannot delete role that is assigned to users"
ErrDeleteRole == "failed to delete role"
ErrPolicyNotFound == "policy not found"
ErrAssignPolicy == "failed to assign policy to role"
ErrGlobalUserNotFound == "user not found"
ErrAssignRole == "failed to assign role to user"

\* First(&role, "id = ?", id)
RoleByID(id) == {r \in Live(roles) : r.ID = id}

CreateRoleFaults == {NoFault, "find", "insert"}

CreateRole(name, fault) ==
    LET role == [ID |-> NewUUID(RoleRange, 1), Name |-> name, Deleted |-> FALSE]
        err == CASE fault = "find" -> ErrInternal
                 [] \E r \in Live(roles) : r.Name = name -> ErrRoleExists
                 [] fault = "insert" \/ (\E r \in roles : r.Name = name) -> ErrCreateRole
                 [] OTHER -> NoError
    IN  /\ roles' = IF err = NoError THEN roles \cup {role} ELSE roles
        /\ lastCall' = Call("CreateRole", name, 0, "",
                            IF err \in {ErrInternal, ErrCreateRole} THEN fault ELSE NoFault,
                            err, IF err = NoError THEN role.ID ELSE 0)
        /\ UNCHANGED <<projects, tables, policies, users, cookies, inflight>>

DeleteRoleFaults == {NoFault, "find", "count", "delete"}

DeleteRole(id, fault) ==
    LET found == RoleByID(id)
        count == Cardinality({u \in Live(users) : u.RoleId = id})
        err == CASE fault = "find" -> ErrInternal
                 [] found = {} -> ErrRoleNotFound
                 [] fault = "count" -> ErrInternal
                 [] count > 0 -> ErrRoleInUse
                 [] fault = "delete" -> ErrDeleteRole
                 [] OTHER -> NoError
        role == CHOOSE r \in found : TRUE
    IN  /\ roles' = IF err = NoError
                    THEN (roles \ {role}) \cup {Tombstone(role)} ELSE roles
        /\ lastCall' = Call("DeleteRole", "", id, "",
                            IF err \in {ErrInternal, ErrDeleteRole} THEN fault ELSE NoFault,
                            err, 0)
        /\ UNCHANGED <<projects, tables, policies, users, cookies, inflight>>

ErrPolicyExists == "policy with this name already exists"
ErrPolicyEffect == "effect must be either 'allow' or 'deny'"
ErrCreatePolicy == "failed to create policy"

CreatePolicyFaults == {NoFault, "find", "insert"}

\* the new policy belongs to no role: RolesId is the zero UUID
CreatePolicy(name, resource, action, effect, fault) ==
    LET policy == [ID |-> NewUUID(PolicyRange, 1), Name |-> name, Resource |-> resource,
                   Action |-> action, Effect |-> effect, RolesId |-> 0, Deleted |-> FALSE]
        err == CASE fault = "find" -> ErrInternal
                 [] \E q \in Live(policies) : q.Name = name -> ErrPolicyExists
                 [] effect # "allow" /\ effect # "deny" -> ErrPolicyEffect
                 [] fault = "insert" \/ (\E q \in policies : q.Name = name) -> ErrCreatePolicy
                 [] OTHER -> NoError
    IN  /\ policies' = IF err = NoError THEN policies \cup {policy} ELSE policies
        /\ lastCall' = Call("CreatePolicy", name, 0, "",
                            IF err \in {ErrInternal, ErrCreatePolicy} THEN fault ELSE NoFault,
                            err, IF err = NoError THEN policy.ID ELSE 0)
        /\ UNCHANGED <<projects, tables, roles, users, cookies, inflight>>

AssignPolicyToRoleFaults == {NoFault, "role", "policy", "save"}

AssignPolicyToRole(roleID, policyID, fault) ==
    LET policyFound == {p \in Live(policies) : p.ID = policyID}
        err == CASE fault = "role" -> ErrInternal
                 [] RoleByID(roleID) = {} -> ErrRoleNotFound
                 [] fault = "policy" -> ErrInternal
                 [] policyFound = {} -> ErrPolicyNotFound
                 [] fault = "save" -> ErrAssignPolicy
                 [] OTHER -> NoError
        policy == CHOOSE p \in policyFound : TRUE
    IN  /\ policies' = IF err = NoError
                       THEN (policies \ {policy}) \cup {[policy EXCEPT !.RolesId = roleID]}
                       ELSE policies
        /\ lastCall' = Call("AssignPolicyToRole", "", policyID, "",
                            IF err \in {ErrInternal, ErrAssignPolicy} THEN fault ELSE NoFault,
                            err, roleID)
        /\ UNCHANGED <<projects, tables, roles, users, cookies, inflight>>

ErrPolicyNotAssigned == "policy not found or not assigned to this role"
ErrRemovePolicy == "failed to remove policy from role"

\* what MySQL does with UPDATE ... SET roles_id = NULL on the NOT NULL
\* column: a strict sql_mode refuses the statement, any other stores ''
SqlModes == {"strict", "lenient"}

RemovePolicyFromRole(roleID, policyID, sqlMode, fault) ==
    LET found == {p \in Live(policies) : p.ID = policyID /\ p.RolesId = roleID}
        err == CASE fault = "find" -> ErrInternal
                 [] found = {} -> ErrPolicyNotAssigned
                 [] fault = "update" \/ sqlMode = "strict" -> ErrRemovePolicy
                 [] OTHER -> NoError
        policy == CHOOSE p \in found : TRUE
    IN  /\ policies' = IF err = NoError
                       THEN (policies \ {policy}) \cup {[policy EXCEPT !.RolesId = 0]}
                       ELSE policies
        /\ lastCall' = Call("RemovePolicyFromRole", "", policyID, "",
                            IF err \in {ErrInternal, ErrRemovePolicy} THEN fault ELSE NoFault,
                            err, roleID)
        /\ UNCHANGED <<projects, tables, roles, users, cookies, inflight>>

AssignRoleFaults == {NoFault, "user", "role", "save"}

AssignRole(userID, roleID, fault) ==
    LET userFound == {u \in Live(users) : u.ID = userID}
        err == CASE fault = "user" -> ErrInternal
                 [] userFound = {} -> ErrGlobalUserNotFound
                 [] fault = "role" -> ErrInternal
                 [] RoleByID(roleID) = {} -> ErrRoleNotFound
                 [] fault = "save" -> ErrAssignRole
                 [] OTHER -> NoError
        user == CHOOSE u \in userFound : TRUE
    IN  /\ users' = IF err = NoError
                    THEN (users \ {user}) \cup {[user EXCEPT !.RoleId = roleID]}
                    ELSE users
        /\ lastCall' = Call("AssignRole", "", userID, "",
                            IF err \in {ErrInternal, ErrAssignRole} THEN fault ELSE NoFault,
                            err, roleID)
        /\ UNCHANGED <<projects, tables, roles, policies, cookies, inflight>>

\* the bodies http.Error writes; NoError when the middleware calls next
BodyUnauthorized == "Unauthorized"
BodyInternal == "Internal server error"
BodyDenied == "Permission denied"

\* a request context without a schemas.User under UserContextKey
NoContextUser == [ID |-> 0, RoleId |-> 0]

\* a middleware that takes no role for the super role
IsSuperAdmin_Never(role) == FALSE

\* role.Name == "SuperAdmin"
IsSuperAdmin(role) == role.Name = "SuperAdmin"

\* a query for the policies of the role that leaves the resource out
PoliciesFor_AnyResource(roleID, resource) ==
    {p \in Live(policies) : p.RolesId = roleID}

\* Where("roles_id = ? AND resource = ?", user.RoleId, resource).Find(&policies)
PoliciesFor(roleID, resource) ==
    {p \in Live(policies) : p.RolesId = roleID /\ p.Resource = resource}

\* a match that does not look at the effect of the policy
PolicyAllows_AnyEffect(policy, action) ==
    policy.Action = "*" \/ policy.Action = action

\* (policy.Action == "*" || policy.Action == action) && policy.Effect == "allow"
PolicyAllows(policy, action) ==
    (policy.Action = "*" \/ policy.Action = action) /\ policy.Effect = "allow"

PolicyMiddlewareFaults == {NoFault, "role", "policies"}

\* one request through PolicyMiddleware(db, resource, action), with the user
\* AuthMiddleware left in the request context
PolicyMiddleware(user, resource, action, fault) ==
    LET roleFound == RoleByID(user.RoleId)
        role == CHOOSE r \in roleFound : TRUE
        found == PoliciesFor(user.RoleId, resource)
        allowed == \E policy \in found : PolicyAllows(policy, action)
        at == CASE user = NoContextUser -> "context"
                [] fault = "role" \/ roleFound = {} -> "role"
                [] IsSuperAdmin(role) -> "bypass"
                [] fault = "policies" -> "policies"
                [] ~allowed -> "denied"
                [] OTHER -> "allowed"
        body == CASE at = "context" -> BodyUnauthorized
                  [] at \in {"role", "policies"} -> BodyInternal
                  [] at = "denied" -> BodyDenied
                  [] OTHER -> NoError
    IN  /\ lastCall' = [op |-> "PolicyMiddleware", project |-> "", id |-> user.ID,
                        email |-> "", fault |-> IF at = fault THEN fault ELSE NoFault,
                        err |-> body, ret |-> 0, list |-> {},
                        role |-> user.RoleId, resource |-> resource, action |-> action]
        /\ UNCHANGED <<projects, tables, roles, policies, users, cookies, inflight>>

----------------------------------------------------------------------------
(* Login and the authentication middleware *)

ErrInvalidCredentials == "invalid email or password"
ErrAccountInactive == "account is inactive"
ErrGenerateToken == "failed to generate authentication token"

\* users.Manager.UpdateUser: sets the names and the active flag of a user
UpdateUser(id, firstName, lastName, active, fault) ==
    LET userFound == {u \in Live(users) : u.ID = id}
        err == CASE fault = "user" -> ErrInternal
                 [] userFound = {} -> ErrGlobalUserNotFound
                 [] fault = "save" -> ErrUpdateUser
                 [] OTHER -> NoError
        user == CHOOSE u \in userFound : TRUE
    IN  /\ users' = IF err = NoError
                    THEN (users \ {user}) \cup
                             {[user EXCEPT !.FirstName = firstName,
                                           !.LastName = lastName,
                                           !.Active = active]}
                    ELSE users
        /\ lastCall' = Call("UpdateUser", "", id, "",
                            IF err \in {ErrInternal, ErrUpdateUser} THEN fault ELSE NoFault,
                            err, 0)
        /\ UNCHANGED <<projects, tables, roles, policies, cookies, inflight>>

\* users.Manager.DeleteUser: soft-deletes a user
DeleteUser(id, fault) ==
    LET userFound == {u \in Live(users) : u.ID = id}
        err == CASE fault = "user" -> ErrInternal
                 [] userFound = {} -> ErrGlobalUserNotFound
                 [] fault = "delete" -> ErrDeleteUser
                 [] OTHER -> NoError
        user == CHOOSE u \in userFound : TRUE
    IN  /\ users' = IF err = NoError
                    THEN (users \ {user}) \cup {Tombstone(user)}
                    ELSE users
        /\ lastCall' = Call("DeleteUser", "", id, "",
                            IF err \in {ErrInternal, ErrDeleteUser} THEN fault ELSE NoFault,
                            err, 0)
        /\ UNCHANGED <<projects, tables, roles, policies, cookies, inflight>>

\* the key tokens are signed with
jwtSecret == "your-secret-key-change-this-in-production"

\* hours from the issue of a token to its expiry
TokenLifetimeHours == 24

\* the empty token string
NoToken == [UserID |-> 0, Email |-> "", Role |-> "", ExpiresIn |-> 0, Key |-> ""]

\* auth.GenerateToken: the claims, the hours until expiry, the signing key
GenerateToken(userID, email, role) ==
    [UserID |-> userID, Email |-> email, Role |-> role,
     ExpiresIn |-> TokenLifetimeHours, Key |-> jwtSecret]

\* AuthEndpoint.Login
Login(email, password, fault) ==
    LET userFound == {u \in Live(users) : u.Email = email}
        user == CHOOSE u \in userFound : TRUE
        roleFound == RoleByID(user.RoleId)
        role == CHOOSE r \in roleFound : TRUE
        err == CASE fault = "user" -> ErrInternal
                 [] userFound = {} -> ErrInvalidCredentials
                 [] ~user.Active -> ErrAccountInactive
                 [] ~PasswordMatches(user.Password, password) -> ErrInvalidCredentials
                 [] fault = "role" \/ roleFound = {} -> ErrInternal
                 [] fault = "sign" -> ErrGenerateToken
                 [] OTHER -> NoError
    IN  /\ lastCall' =
               Call("Login", "", IF err = NoError THEN user.ID ELSE 0, email,
                    IF \/ fault = "user"
                       \/ fault = "role" /\ err = ErrInternal
                       \/ err = ErrGenerateToken
                    THEN fault ELSE NoFault,
                    err, 0)
               @@ [password |-> password,
                   token |-> IF err = NoError
                             THEN GenerateToken(user.ID, user.Email, role.Name)
                             ELSE NoToken]
        /\ UNCHANGED <<projects, tables, roles, policies, users, cookies, inflight>>

\* the bodies AuthMiddleware writes; NoError when it calls next
BodyHeaderRequired == "Authorization header required"
BodyInvalidFormat == "Invalid authorization format"
BodyInvalidToken == "Invalid or expired token"
BodyUserNotFound == "User not found"
BodyInactive == "User account is inactive"

\* an Authorization header: its scheme ("" when the header is absent) and
\* the token that follows the scheme
Header(scheme, token) == [scheme |-> scheme, token |-> token]

\* ValidateToken of tokens.go: the signature and the expiry are verified,
\* the user id of the claims is returned; elapsed is the hours since issue
ValidateToken_Claims(token, elapsed) ==
    IF token.Key = jwtSecret /\ elapsed < token.ExpiresIn
    THEN [ok |-> TRUE, id |-> token.UserID]
    ELSE [ok |-> FALSE, id |-> 0]

\* ValidateToken of middleware.go: returns uuid.Nil and an error
ValidateToken_Placeholder(token, elapsed) == [ok |-> FALSE, id |-> 0]

\* package auth declares ValidateToken twice, in tokens.go and in
\* middleware.go; a build holds one of the two
Builds == {"tokens.go", "middleware.go"}

ValidateToken(build, token, elapsed) ==
    IF build = "tokens.go"
    THEN ValidateToken_Claims(token, elapsed)
    ELSE ValidateToken_Placeholder(token, elapsed)

AuthMiddlewareFaults == {NoFault, "user"}

\* the handler AuthMiddleware returns, on a request with the given header
AuthMiddleware(build, header, elapsed, fault) ==
    LET validated == ValidateToken(build, header.token, elapsed)
        userFound == {u \in Live(users) : u.ID = validated.id}
        user == CHOOSE u \in userFound : TRUE
        body == CASE header.scheme = "" -> BodyHeaderRequired
                  [] header.scheme # "Bearer" -> BodyInvalidFormat
                  [] ~validated.ok -> BodyInvalidToken
                  [] fault = "user" -> BodyInternal
                  [] userFound = {} -> BodyUserNotFound
                  [] ~user.Active -> BodyInactive
                  [] OTHER -> NoError
        status == CASE body = NoError -> 200
                    [] body = BodyInternal -> 500
                    [] body = BodyInactive -> 403
                    [] OTHER -> 401
    IN  /\ lastCall' =
               Call("AuthMiddleware", "", IF body = NoError THEN user.ID ELSE 0, "",
                    IF body = BodyInternal THEN fault ELSE NoFault, body, status)
               @@ [build |-> build, header |-> header, elapsed |-> elapsed]
        /\ UNCHANGED <<projects, tables, roles, policies, users, cookies, inflight>>

-----------------------------------------------------------------------------
(* OAuth sign-in with the project carried in the state parameter *)

\* the providers the ProviderFactory holds
Providers == {"google"}

ErrProviderNotFound(name) == "provider " \o name \o " not found"

\* generateNonce(16): the URL-safe base64 text of 16 random bytes
Nonces == {"AAAAAAAAAAAAAAAAAAAAAA=="}

\* the project ids that travel in a state parameter
StateProjects == {UUIDString(91), UUIDString(92), "acme"}

\* json.Marshal(OAuthState{ProjectID, Nonce})
MarshalState(projectID, nonce) ==
    "{\"project_id\":\"" \o projectID \o "\",\"nonce\":\"" \o nonce \o "\"}"

\* base64.URLEncoding: <<text, its encoding>> for the texts that occur
Base64Table ==
    {<<MarshalState(UUIDString(91), "AAAAAAAAAAAAAAAAAAAAAA=="),
       "eyJwcm9qZWN0X2lkIjoiMDAwMDAwMDAtMDAwMC0wMDAwLTAwMDAtMDAwMDAwMDAwMDkxIiwibm9uY2UiOiJBQUFBQUFBQUFBQUFBQUFBQUFBQUFBPT0ifQ==">>,
     <<MarshalState(UUIDString(92), "AAAAAAAAAAAAAAAAAAAAAA=="),
       "eyJwcm9qZWN0X2lkIjoiMDAwMDAwMDAtMDAwMC0wMDAwLTAwMDAtMDAwMDAwMDAwMDkyIiwibm9uY2UiOiJBQUFBQUFBQUFBQUFBQUFBQUFBQUFBPT0ifQ==">>,
     <<MarshalState("acme", "AAAAAAAAAAAAAAAAAAAAAA=="),
       "eyJwcm9qZWN0X2lkIjoiYWNtZSIsIm5vbmNlIjoiQUFBQUFBQUFBQUFBQUFBQUFBQUFBQT09In0=">>,
     <<"{}", "e30=">>,
     <<"[1]", "WzFd">>}

\* base64.URLEncoding.EncodeToString
EncodeToString(text) == (CHOOSE row \in Base64Table : row[1] = text)[2]

\* a decoder that takes every text for base64
DecodeString_Lenient(s) == [ok |-> TRUE, text |-> "{}"]

\* base64.URLEncoding.DecodeString: the text, or an error
DecodeString(s) ==
    LET rows == {row \in Base64Table : row[2] = s}
    IN  IF rows # {}
        THEN [ok |-> TRUE, text |-> (CHOOSE row \in rows : TRUE)[1]]
        ELSE [ok |-> FALSE, text |-> ""]

\* json.Unmarshal into an OAuthState: an object with the two members gives
\* them, an object without them gives the zero value, other texts an error
UnmarshalState(text) ==
    LET members == {m \in StateProjects \X Nonces : MarshalState(m[1], m[2]) = text}
        member == CHOOSE m \in members : TRUE
    IN  CASE members # {} -> [ok |-> TRUE, ProjectID |-> member[1], Nonce |-> member[2]]
          [] text = "{}" -> [ok |-> TRUE, ProjectID |-> "", Nonce |-> ""]
          [] OTHER -> [ok |-> FALSE, ProjectID |-> "", Nonce |-> ""]

encodeOAuthState(projectID, nonce) == EncodeToString(MarshalState(projectID, nonce))

decodeOAuthState(state) ==
    LET stateJSON == DecodeString(state)
    IN  IF stateJSON.ok
        THEN UnmarshalState(stateJSON.text)
        ELSE [ok |-> FALSE, ProjectID |-> "", Nonce |-> ""]

\* decodeOAuthLoginRequest and OAuthEndpoint.Login: the login leg, which
\* returns the provider's URL with the state in it
OAuthEndpointLogin(provider, projectID, nonce) ==
    /\ lastCall' =
           Call("OAuthEndpointLogin", projectID, 0, "", NoFault,
                IF provider \in Providers THEN NoError ELSE ErrProviderNotFound(provider),
                0)
           @@ [state |-> IF provider \in Providers
                         THEN encodeOAuthState(projectID, nonce) ELSE ""]
    /\ UNCHANGED <<projects, tables, roles, policies, users, cookies, inflight>>

\* the codes the provider exchanges for a token
AcceptedCodes == {"good"}

\* RoleID of the OAuthCallbackRequest that decodeOAuthCallbackRequest
\* builds: the field is not set
CallbackRoleID == ""

\* ProjectUserManager.GenerateToken(ctx, projectID, userID)
ProjectUserGenerateToken(projectID, userID) == GenerateToken(userID, "", "")

OAuthCallbackFaults == {NoFault, "userinfo"} \cup OAuthUpsertFaults

\* decodeOAuthCallbackRequest and OAuthEndpoint.Callback: the callback leg;
\* userInfo is what the provider reports for the account that signed in
OAuthEndpointCallback(provider, code, state, userInfo, fault) ==
    LET stateObj == decodeOAuthState(state)
        projectID == stateObj.ProjectID
        roleID == ParseUUID(CallbackRoleID)
        upsert == OAuthUpsert(projectID, userInfo, roleID.id,
                              IF fault \in OAuthUpsertFaults THEN fault ELSE NoFault)
        err == CASE code = "" -> "missing code parameter"
                 [] state = "" -> "missing state parameter"
                 [] ~stateObj.ok -> "invalid state parameter"
                 [] provider \notin Providers -> ErrProviderNotFound(provider)
                 [] code \notin AcceptedCodes -> "failed to exchange code for token"
                 [] fault = "userinfo" -> "failed to get user info"
                 [] ~roleID.ok -> "invalid role ID format"
                 [] OTHER -> upsert.err
        \* provider.Exchange was called
        exchanged == err \notin {"missing code parameter", "missing state parameter",
                                 "invalid state parameter",
                                 ErrProviderNotFound(provider)}
        \* CreateOrUpdateOAuthProjectUser was called
        upserted == /\ exchanged
                    /\ err \notin {"failed to exchange code for token",
                                   "failed to get user info", "invalid role ID format"}
    IN  /\ tables' = IF upserted THEN upsert.tables ELSE tables
        /\ lastCall' =
               Call("OAuthEndpointCallback", projectID,
                    IF upserted THEN upsert.id ELSE 0, userInfo.Email,
                    CASE err = "failed to get user info" -> fault
                      [] upserted -> upsert.fault
                      [] OTHER -> NoFault,
                    err, 0)
               @@ [provider |-> provider, code |-> code, state |-> state,
                   exchanged |-> exchanged,
                   token |-> IF err = NoError
                             THEN ProjectUserGenerateToken(projectID, upsert.id)
                             ELSE NoToken]
        /\ UNCHANGED <<projects, roles, policies, users, cookies, inflight>>

-----------------------------------------------------------------------------
(* OAuth sign-in with the state kept for the browser *)

\* the session "auth-session" of a browser that holds none
NoSession == [oauth_state |-> "", oauth_token |-> "", user_id |-> 0]

\* the cookies of a browser that holds none: the cookie oauth_state of
\* handleOAuthLogin and the session cookie of the SessionManager
NoCookies == [oauth_state |-> "", session |-> NoSession]

\* UserManager.CreateOrUpdateOAuthUser: what it does to table users and
\* returns
OAuthUserUpsert(userInfo, projectID, roleID, fault) ==
    LET found == IF fault = "find" THEN {}
                 ELSE {u \in Live(users) : u.Email = userInfo.Email}
        existingUser == CHOOSE u \in found : TRUE
        updated == [existingUser EXCEPT !.FirstName = userInfo.FirstName,
                                        !.LastName = userInfo.LastName]
        newUser == [ID |-> NewUUID(UserRange, 1), Email |-> userInfo.Email,
                    Password |-> "", FirstName |-> userInfo.FirstName,
                    LastName |-> userInfo.LastName, Active |-> TRUE,
                    OAuthID |-> "", OAuthType |-> "", RoleId |-> roleID,
                    ProjectId |-> projectID, Deleted |-> FALSE]
        err == CASE found # {} /\ fault = "save" -> ErrUpdateUser
                 [] found # {} -> NoError
                 [] ProjectByID(projectID) = {} -> ErrProjectNotFound
                 [] RoleByID(roleID) = {} -> ErrRoleNotFound
                 [] \/ fault = "insert"
                    \/ \E u \in users : u.Email = userInfo.Email -> ErrCreateUser
                 [] OTHER -> NoError
    IN  [users |-> CASE err # NoError -> users
                     [] found # {} -> (users \ {existingUser}) \cup {updated}
                     [] OTHER -> users \cup {newUser},
         err |-> err,
         id |-> CASE err # NoError -> 0
                  [] found # {} -> existingUser.ID
                  [] OTHER -> newUser.ID]

\* Manager.CreateOrUpdateOAuthUser, called on its own
CreateOrUpdateOAuthUser(userInfo, projectID, roleID, fault) ==
    LET upsert == OAuthUserUpsert(userInfo, projectID, roleID, fault)
    IN  /\ users' = upsert.users
        /\ lastCall' = Call("CreateOrUpdateOAuthUser", "", upsert.id, userInfo.Email,
                            IF upsert.err \in {ErrUpdateUser, ErrCreateUser} /\ fault # NoFault
                            THEN fault ELSE NoFault,
                            upsert.err, 0)
        /\ UNCHANGED <<projects, tables, roles, policies, cookies, inflight>>

\* handleOAuthLogin: state is what generateSecureState returns
handleOAuthLogin(browser, providerName, state) ==
    LET body == IF providerName \in Providers THEN NoError
                ELSE "Provider not found: " \o providerName
    IN  /\ cookies' = IF body = NoError
                      THEN [cookies EXCEPT ![browser].oauth_state = state]
                      ELSE cookies
        /\ lastCall' = Call("handleOAuthLogin", "", 0, "", NoFault, body,
                            IF body = NoError THEN 307 ELSE 400)
                       @@ [browser |-> browser, state |-> state]
        /\ UNCHANGED <<projects, tables, roles, policies, users, inflight>>

\* UserManager.GenerateToken(ctx, userID)
UserManagerGenerateToken(userID) == GenerateToken(userID, "", "")

\* handleOAuthCallback
handleOAuthCallback(browser, providerName, code, state, projectID, userInfo, fault) ==
    LET stateCookie == cookies[browser].oauth_state
        projectUUID == ParseUUID(projectID)
        roleUUID == ParseUUID("00000000-0000-0000-0000-000000000000")
        upsert == OAuthUserUpsert(userInfo, projectUUID.id, roleUUID.id, fault)
        body == CASE providerName \notin Providers -> "Provider not found: " \o providerName
                  [] code = "" -> "Missing code parameter"
                  [] state = "" -> "Missing state parameter"
                  [] stateCookie = "" \/ stateCookie # state -> "Invalid state parameter"
                  [] code \notin AcceptedCodes -> "Failed to exchange code for token"
                  [] fault = "userinfo" -> "Failed to get user info"
                  [] ~projectUUID.ok -> "Invalid project ID format"
                  [] ~roleUUID.ok -> "Invalid role ID format"
                  [] upsert.err # NoError ->
                         "Failed to create or update user: " \o upsert.err
                  [] fault = "token" -> "Failed to generate token"
                  [] OTHER -> NoError
        verified == body \notin {"Provider not found: " \o providerName,
                                 "Missing code parameter", "Missing state parameter",
                                 "Invalid state parameter"}
        upserted == /\ verified
                    /\ body \notin {"Failed to exchange code for token",
                                    "Failed to get user info",
                                    "Invalid project ID format",
                                    "Invalid role ID format"}
    IN  \* the cookie is cleared once the state is verified
        /\ cookies' = IF verified
                      THEN [cookies EXCEPT ![browser].oauth_state = ""]
                      ELSE cookies
        /\ users' = IF upserted THEN upsert.users ELSE users
        /\ lastCall' =
               Call("handleOAuthCallback", projectID,
                    IF upserted THEN upsert.id ELSE 0, userInfo.Email,
                    NoFault, body,
                    CASE body = NoError -> 200
                      [] upserted \/ body \in {"Failed to exchange code for token",
                                               "Failed to get user info",
                                               "Invalid role ID format"} -> 500
                      [] OTHER -> 400)
               @@ [browser |-> browser, code |-> code, state |-> state,
                   stored |-> stateCookie, exchanged |-> verified,
                   token |-> IF body = NoError
                             THEN UserManagerGenerateToken(upsert.id) ELSE NoToken]
        /\ UNCHANGED <<projects, tables, roles, policies, inflight>>

\* SessionManager.SetOAuthState: the session with the state in it
SetOAuthState(session, state) == [session EXCEPT !.oauth_state = state]

\* a verification that takes every state for the stored one
VerifyOAuthState_AnyState(session, state) ==
    [err |-> FALSE, valid |-> TRUE, session |-> [session EXCEPT !.oauth_state = ""]]

\* SessionManager.VerifyOAuthState: an error when the session holds no
\* state; otherwise whether it equals the given one, and the session of
\* the request with the state deleted from it
VerifyOAuthState(session, state) ==
    IF session.oauth_state = ""
    THEN [err |-> TRUE, valid |-> FALSE, session |-> session]
    ELSE [err |-> FALSE, valid |-> session.oauth_state = state,
          session |-> [session EXCEPT !.oauth_state = ""]]

\* OAuthHandler.StartOAuth: state is the text of uuid.New()
StartOAuth(browser, providerName, state) ==
    LET body == IF providerName \in Providers THEN NoError ELSE "Invalid provider"
    IN  /\ cookies' = IF body = NoError
                      THEN [cookies EXCEPT
                               ![browser].session = SetOAuthState(@, state)]
                      ELSE cookies
        /\ lastCall' = Call("StartOAuth", "", 0, "", NoFault, body,
                            IF body = NoError THEN 307 ELSE 400)
                       @@ [browser |-> browser, state |-> state]
        /\ UNCHANGED <<projects, tables, roles, policies, users, inflight>>

\* OAuthHandler.OAuthCallback; the session of the request is written back
\* to the browser by StoreOAuthToken and by Login, which save it
OAuthCallback(browser, providerName, code, state, userInfo, fault) ==
    LET session == cookies[browser].session
        verify == VerifyOAuthState(session, state)
        byOAuth == {u \in Live(users) :
                       u.OAuthType = providerName /\ u.OAuthID = userInfo.ID}
        byEmail == {u \in Live(users) : u.Email = userInfo.Email}
        newUser == [ID |-> NewUUID(UserRange, 1), Email |-> userInfo.Email,
                    Password |-> "", FirstName |-> userInfo.FirstName,
                    LastName |-> userInfo.LastName, Active |-> FALSE,
                    OAuthID |-> userInfo.ID, OAuthType |-> providerName,
                    RoleId |-> 0, ProjectId |-> 0, Deleted |-> FALSE]
        user == CASE byOAuth # {} -> CHOOSE u \in byOAuth : TRUE
                  [] byEmail # {} ->
                         [(CHOOSE u \in byEmail : TRUE) EXCEPT
                             !.OAuthID = userInfo.ID, !.OAuthType = providerName]
                  [] OTHER -> newUser
        body == CASE state = "" \/ code = "" -> "Missing state or code"
                  [] verify.err \/ ~verify.valid -> "Invalid state"
                  [] providerName \notin Providers -> "Invalid provider"
                  [] code \notin AcceptedCodes -> "Failed to exchange code"
                  [] fault = "userinfo" -> "Failed to get user info"
                  [] /\ byOAuth = {} /\ byEmail = {}
                     /\ \/ fault = "create"
                        \/ \E u \in users : u.Email = userInfo.Email ->
                         "Failed to create user"
                  [] (byOAuth # {} \/ byEmail # {}) /\ fault = "update" ->
                         "Failed to update user"
                  [] fault = "tokens" -> "Failed to generate tokens"
                  [] OTHER -> NoError
        exchanged == body \notin {"Missing state or code", "Invalid state",
                                  "Invalid provider"}
        \* StoreOAuthToken has saved the session
        stored == exchanged /\ body # "Failed to exchange code"
        \* the user store has been written
        written == /\ stored
                   /\ body \notin {"Failed to get user info", "Failed to create user",
                                   "Failed to update user"}
    IN  /\ cookies' =
               CASE written ->
                        [cookies EXCEPT ![browser].session =
                            [verify.session EXCEPT !.oauth_token = code,
                                                   !.user_id = user.ID]]
                 [] stored ->
                        [cookies EXCEPT ![browser].session =
                            [verify.session EXCEPT !.oauth_token = code]]
                 [] OTHER -> cookies
        /\ users' = IF written
                    THEN {u \in users : u.ID # user.ID} \cup {user}
                    ELSE users
        /\ lastCall' =
               Call("OAuthCallback", "", IF written THEN user.ID ELSE 0,
                    userInfo.Email, NoFault, body,
                    CASE body = NoError -> 200
                      [] exchanged -> 500
                      [] OTHER -> 400)
               @@ [browser |-> browser, code |-> code, state |-> state,
                   stored |-> session.oauth_state, exchanged |-> exchanged]
        /\ UNCHANGED <<projects, tables, roles, policies, inflight>>

\* UserStore.FindByID: the stored, non-deleted user with the id
FindByID(id) == {u \in Live(users) : u.ID = id}

\* SessionManager.GetCurrentUser: the user the session of the browser names
GetCurrentUser(browser) ==
    IF cookies[browser].session.user_id = 0
    THEN {}
    ELSE FindByID(cookies[browser].session.user_id)

\* Middleware.validateJWT: signature and expiry are verified and the user of
\* the claim sub, which GenerateToken sets to the user id, is looked up
validateJWT(token, elapsed) ==
    IF token.Key = jwtSecret /\ elapsed < token.ExpiresIn
    THEN FindByID(token.UserID)
    ELSE {}

\* the handler Middleware.RequireAuthentication returns: the session first,
\* then the bearer token
RequireAuthentication(browser, header, elapsed) ==
    LET bySession == GetCurrentUser(browser)
        byToken == IF header.scheme = "Bearer"
                   THEN validateJWT(header.token, elapsed) ELSE {}
        found == IF bySession # {} THEN bySession ELSE byToken
        user == CHOOSE u \in found : TRUE
    IN  /\ lastCall' =
               Call("RequireAuthentication", "", IF found # {} THEN user.ID ELSE 0, "",
                    NoFault, IF found # {} THEN NoError ELSE "Unauthorized",
                    IF found # {} THEN 200 ELSE 401)
               @@ [browser |-> browser, header |-> header, elapsed |-> elapsed]
        /\ UNCHANGED <<projects, tables, roles, policies, users, cookies, inflight>>

-----------------------------------------------------------------------------
(* Callers' inputs *)

\* slugs that have the textual form of a UUID
TenantSlugs == {UUIDString(90 + i) : i \in 1 .. MaxTenants}

SlugNames == <<"acme", "beta", "gamma">>

\* slugs in plain words, which uuid.Parse rejects
Slugs == {"default"} \cup {SlugNames[i] : i \in 1 .. MaxSlugs}

Names == {"Acme", "Acme2"}

Descriptions == {"desc"}

\* project ids a caller can name: those of stored rows and one of no row
ProjectIDArgs == {p.ID : p \in projects} \cup {80}

EmailNames == <<"ann@x.io", "bob@x.io", "cy@x.io">>

Emails == {EmailNames[i] : i \in 1 .. MaxEmails}

\* project identifiers callers of the tenant user store pass: the slugs of
\* the tenants and a slug uuid.Parse rejects
TenantArgs == TenantSlugs \cup {"acme"}

\* the browsers that take part in OAuth sign-ins
Browsers == {"b1", "b2"}

\* role ids callers pass (the store does not look the role up)
RoleArgs == {81}

\* tenant user ids a caller can name: those of stored rows and one of no row
UserIDArgs == UNION {{u.ID : u \in tables[t]} : t \in DOMAIN tables} \cup {82}

\* what the OAuth provider reports for the account with this e-mail address
ProviderUserInfo(email) ==
    [ID |-> "g-" \o email, Email |-> email, FirstName |-> "Grace",
     LastName |-> "Hopper", Provider |-> "google"]

----------------------------------------------------------------------------

Init ==
    /\ projects = {}
    /\ tables = << >>
    /\ roles = {}
    /\ policies = {}
    /\ users = {}
    /\ cookies = [b \in Browsers |-> NoCookies]
    /\ inflight = {}
    /\ lastCall = Call("none", "", 0, "", NoFault, NoError, 0)

\* the policy a failing policy statement of EnsureSuperUser belongs to
FaultPolicies(fault) ==
    IF fault \in {"policy_find", "policy_create"} THEN 1 .. 3 ELSE {0}

NextProvision ==
    \/ \E n \in Names, d \in Descriptions, s \in Slugs, f \in CreateProjectFaults :
          CreateProject(n, d, s, f)
    \/ \E id \in ProjectIDArgs, f \in GetProjectFaults : GetProject(id, f)
    \/ \E id \in ProjectIDArgs, n \in Names, d \in Descriptions, f \in UpdateProjectFaults :
          UpdateProject(id, n, d, f)
    \/ \E id \in ProjectIDArgs, f \in DeleteProjectFaults : DeleteProject(id, f)

SpecProvision == Init /\ [][NextProvision]_vars

\* the start-up bootstrap next to the provisioning calls
NextBootstrap ==
    \/ \E s \in Slugs, f \in {NoFault, "table", "commit"} :
          CreateProject("Acme", "desc", s, f)
    \/ \E id \in ProjectIDArgs : UpdateProject(id, "Acme2", "desc", NoFault)
    \/ \E id \in ProjectIDArgs, f \in {NoFault, "drop"} : DeleteProject(id, f)
    \/ \E f \in EnsureSuperUserFaults : \E i \in FaultPolicies(f) :
          EnsureSuperUser(DefaultSuperUserConfig, f, i)

SpecBootstrap == Init /\ [][NextBootstrap]_vars

\* the tenant user store on the tenants CreateProject provisions
NextTenant ==
    \/ \E s \in TenantSlugs, f \in {NoFault, "table"} : CreateProject("Acme", "desc", s, f)
    \/ \E t \in TenantArgs, e \in Emails, f \in CreateProjectUserFaults :
          CreateProjectUser(t, e, "secret", "Ann", "Lee", 81, f)
    \/ \E t \in TenantArgs, id \in UserIDArgs, f \in FindFaults : GetProjectUser(t, id, f)
    \/ \E t \in TenantArgs, e \in Emails, f \in FindFaults : GetProjectUserByEmail(t, e, f)
    \/ \E t \in TenantArgs, f \in FindFaults : ListProjectUsers(t, f)
    \/ \E t \in TenantArgs, id \in UserIDArgs, a \in BOOLEAN, f \in UpdateProjectUserFaults :
          UpdateProjectUser(t, id, "Ann", "Lee", a, f)
    \/ \E t \in TenantArgs, id \in UserIDArgs, f \in DeleteProjectUserFaults :
          DeleteProjectUser(t, id, f)

SpecTenant == Init /\ [][NextTenant]_vars

\* the OAuth upsert next to password sign-up and deletion
NextOAuth ==
    \/ \E s \in TenantSlugs : CreateProject("Acme", "desc", s, NoFault)
    \/ \E t \in TenantArgs, e \in Emails, f \in CreateProjectUserFaults :
          CreateProjectUser(t, e, "secret", "Ann", "Lee", 81, f)
    \/ \E t \in TenantArgs, id \in UserIDArgs, f \in DeleteProjectUserFaults :
          DeleteProjectUser(t, id, f)
    \/ \E t \in TenantArgs, e \in Emails, r \in RoleArgs, f \in OAuthUpsertFaults :
          CreateOrUpdateOAuthProjectUser(t, ProviderUserInfo(e), r, f)

SpecOAuth == Init /\ [][NextOAuth]_vars

RoleNames == {"SuperAdmin", "Viewer"}

\* role ids a caller can name: those of stored rows and one of no row
RoleIDArgs == {r.ID : r \in roles} \cup {81}

PolicyIDArgs == {p.ID : p \in policies} \cup {83}

GlobalUserIDArgs == {u.ID : u \in users} \cup {84}

\* the users AuthMiddleware lets through: stored, not deleted, active
ContextUsers ==
    {[ID |-> u.ID, RoleId |-> u.RoleId] : u \in {v \in Live(users) : v.Active}}
        \cup {NoContextUser}

Resources == {"projects", "users"}

Actions == {"read", "delete"}

AllResources == {"projects", "roles", "users"}

AllActions == {"read", "write", "delete"}

\* the policies administrators create: <<name, resource, action, effect>>
PolicyInputs ==
    {<<"ProjectsAll", "projects", "*", "allow">>,
     <<"RolesDeny", "roles", "*", "deny">>,
     <<"UsersRead", "users", "read", "allow">>,
     <<"UsersMaybe", "users", "read", "maybe">>}

\* ids of the policies CreatePolicy stored, and one of no row
CreatedPolicyIDArgs == {p.ID : p \in {q \in policies : q.Name \notin
                          {"AllPoliciesAccess", "AllRolesAccess", "AllProjectsAccess"}}}
                          \cup {83}

\* ids of the roles other than the super role, and one of no row
OrdinaryRoleIDArgs == {r.ID : r \in {q \in roles : q.Name # "SuperAdmin"}} \cup {81}

\* policies made, assigned to roles and evaluated by the middleware
NextPolicy ==
    \/ EnsureSuperUser(DefaultSuperUserConfig, NoFault, 0)
    \/ CreateRole("Viewer", NoFault)
    \/ \E i \in PolicyInputs, f \in {NoFault, "insert"} :
          CreatePolicy(i[1], i[2], i[3], i[4], f)
    \/ \E r \in OrdinaryRoleIDArgs, p \in CreatedPolicyIDArgs :
          AssignPolicyToRole(r, p, NoFault)
    \/ \E u \in GlobalUserIDArgs, r \in RoleIDArgs : AssignRole(u, r, NoFault)
    \/ \E u \in ContextUsers, res \in AllResources, a \in AllActions,
          f \in {NoFault, "policies"} : PolicyMiddleware(u, res, a, f)

SpecPolicy == Init /\ [][NextPolicy]_vars

\* policies made, attached to roles and detached from them
NextAttach ==
    \/ EnsureSuperUser(DefaultSuperUserConfig, NoFault, 0)
    \/ CreateRole("Viewer", NoFault)
    \/ \E i \in PolicyInputs, f \in {NoFault, "insert"} :
          CreatePolicy(i[1], i[2], i[3], i[4], f)
    \/ \E r \in OrdinaryRoleIDArgs, p \in CreatedPolicyIDArgs :
          AssignPolicyToRole(r, p, NoFault)
    \/ \E r \in OrdinaryRoleIDArgs, p \in CreatedPolicyIDArgs, m \in SqlModes :
          RemovePolicyFromRole(r, p, m, NoFault)

SpecAttach == Init /\ [][NextAttach]_vars

\* roles, role assignment and the authorization of requests
NextAuthz ==
    \/ \E f \in {NoFault, "project_create"} :
          EnsureSuperUser(DefaultSuperUserConfig, f, 0)
    \/ \E n \in RoleNames, f \in CreateRoleFaults : CreateRole(n, f)
    \/ \E id \in RoleIDArgs, f \in DeleteRoleFaults : DeleteRole(id, f)
    \/ \E r \in RoleIDArgs, p \in PolicyIDArgs, f \in AssignPolicyToRoleFaults :
          AssignPolicyToRole(r, p, f)
    \/ \E u \in GlobalUserIDArgs, r \in RoleIDArgs, f \in AssignRoleFaults :
          AssignRole(u, r, f)
    \/ \E u \in ContextUsers, res \in Resources, a \in Actions,
          f \in PolicyMiddlewareFaults : PolicyMiddleware(u, res, a, f)

SpecAuthz == Init /\ [][NextAuthz]_vars

\* roles made and deleted while tenants take users with role ids
NextRoleRefs ==
    \/ \E n \in RoleNames : CreateRole(n, NoFault)
    \/ \E id \in RoleIDArgs, f \in {NoFault, "delete"} : DeleteRole(id, f)
    \/ \E s \in TenantSlugs : CreateProject("Acme", "desc", s, NoFault)
    \/ \E t \in TenantSlugs, e \in Emails, r \in RoleIDArgs, f \in {NoFault, "insert"} :
          CreateProjectUser(t, e, "secret", "Ann", "Lee", r, f)

SpecRoleRefs == Init /\ [][NextRoleRefs]_vars

LoginEmails == {DefaultSuperUserConfig.Email, "nobody@example.com"}

LoginPasswords == {DefaultSuperUserConfig.Password, "guess"}

\* hours since the issue of the presented token
ElapsedHours == {1, 25}

\* the tokens a client can present: the one Login has just returned, one of
\* an earlier sign-in of each stored user, one signed with another key
PresentedTokens ==
    (IF lastCall.op = "Login" THEN {lastCall.token} ELSE {})
        \cup {GenerateToken(u.ID, u.Email, SuperAdminRoleName) : u \in users}
        \cup {[GenerateToken(84, "nobody@example.com", "Viewer") EXCEPT !.Key = "other"]}

Headers ==
    {Header("", NoToken), Header("Basic", NoToken)}
        \cup {Header("Bearer", t) : t \in PresentedTokens}

NextLogin ==
    \/ EnsureSuperUser(DefaultSuperUserConfig, NoFault, 0)
    \/ \E id \in GlobalUserIDArgs, active \in BOOLEAN, f \in {NoFault, "save"} :
          UpdateUser(id, "Super", "User", active, f)
    \/ \E id \in GlobalUserIDArgs, f \in {NoFault, "delete"} : DeleteUser(id, f)
    \/ \E e \in LoginEmails, pw \in LoginPasswords,
          f \in {NoFault, "user", "role", "sign"} : Login(e, pw, f)
    \/ \E b \in Builds, h \in Headers, t \in ElapsedHours, f \in AuthMiddlewareFaults :
          AuthMiddleware(b, h, t, f)

SpecLogin == Init /\ [][NextLogin]_vars

ProviderArgs == {"google", "myspace"}

\* code parameters of a callback: none, one the provider accepts, one it
\* does not
CallbackCodes == {"", "good", "stale"}

\* state parameters of a callback: none, the texts of Base64Table encoded,
\* one that is not base64
CallbackStates == {"", "%%%"} \cup {row[2] : row \in Base64Table}

NextCallback ==
    \/ \E s \in TenantSlugs : CreateProject("Acme", "desc", s, NoFault)
    \/ \E t \in TenantSlugs, e \in Emails :
          CreateProjectUser(t, e, "secret", "Ann", "Lee", 81, NoFault)
    \/ \E pr \in ProviderArgs, p \in StateProjects, n \in Nonces :
          OAuthEndpointLogin(pr, p, n)
    \/ \E pr \in ProviderArgs, c \in CallbackCodes, st \in CallbackStates,
          e \in Emails, f \in OAuthCallbackFaults :
          OAuthEndpointCallback(pr, c, st, ProviderUserInfo(e), f)

SpecCallback == Init /\ [][NextCallback]_vars

\* the state a login leg draws, and one that no login leg of the service drew
LoginStates == {"c3RhdGUx"}

ForgedStates == {"Zm9yZ2Vk"}

\* the accounts that sign in at the provider
ProviderEmails == {DefaultSuperUserConfig.Email}

\* the project ids in the route of a callback
RouteProjects == {UUIDString(p.ID) : p \in projects} \cup {"acme"}

NextBrowser ==
    \/ EnsureSuperUser(DefaultSuperUserConfig, NoFault, 0)
    \/ \E b \in Browsers, pr \in ProviderArgs, st \in LoginStates :
          handleOAuthLogin(b, pr, st)
    \/ \E b \in Browsers, st \in {""} \cup LoginStates \cup ForgedStates,
          c \in {"good", "stale"}, p \in RouteProjects, e \in ProviderEmails :
          handleOAuthCallback(b, "google", c, st, p, ProviderUserInfo(e), NoFault)
    \/ \E b \in Browsers, pr \in ProviderArgs, st \in LoginStates :
          StartOAuth(b, pr, st)
    \/ \E b \in Browsers, st \in {""} \cup LoginStates \cup ForgedStates,
          c \in {"good", "stale"}, e \in ProviderEmails :
          OAuthCallback(b, "google", c, st, ProviderUserInfo(e), NoFault)

SpecBrowser == Init /\ [][NextBrowser]_vars

\* sign-ins by password and through the provider, changes to the accounts,
\* and requests that pass the two authentication middlewares
NextSession ==
    \/ EnsureSuperUser(DefaultSuperUserConfig, NoFault, 0)
    \/ \E st \in LoginStates : StartOAuth("b1", "google", st)
    \/ \E st \in LoginStates, e \in ProviderEmails :
          OAuthCallback("b1", "google", "good", st, ProviderUserInfo(e), NoFault)
    \/ \E e \in LoginEmails, pw \in LoginPasswords : Login(e, pw, NoFault)
    \/ \E id \in GlobalUserIDArgs, active \in BOOLEAN :
          UpdateUser(id, "Super", "User", active, NoFault)
    \/ \E id \in GlobalUserIDArgs : DeleteUser(id, NoFault)
    \/ \E b \in Builds, h \in Headers, t \in ElapsedHours :
          AuthMiddleware(b, h, t, NoFault)
    \/ \E b \in Browsers, h \in Headers, t \in ElapsedHours :
          RequireAuthentication(b, h, t)

SpecSession == Init /\ [][NextSession]_vars

\* passwords a client tries on an account: none, a guess, the head of a hash
TriedPasswords == {"", "guess", "$2a$10$"}

\* accounts made by the OAuth upsert, and sign-ins by password
NextPasswordless ==
    \/ EnsureSuperUser(DefaultSuperUserConfig, NoFault, 0)
    \/ \E e \in Emails, p \in ProjectIDArgs, r \in RoleIDArgs, f \in {NoFault, "insert"} :
          CreateOrUpdateOAuthUser(ProviderUserInfo(e), p, r, f)
    \/ \E st \in LoginStates : StartOAuth("b1", "google", st)
    \/ \E st \in LoginStates, e \in Emails :
          OAuthCallback("b1", "google", "good", st, ProviderUserInfo(e), NoFault)
    \/ \E id \in GlobalUserIDArgs, active \in BOOLEAN :
          UpdateUser(id, "Grace", "Hopper", active, NoFault)
    \/ \E e \in Emails \cup {DefaultSuperUserConfig.Email}, pw \in TriedPasswords,
          f \in {NoFault, "role"} : Login(e, pw, f)

SpecPasswordless == Init /\ [][NextPasswordless]_vars

\* the requests that can be in flight at the same time
Requests == {"r1", "r2"}

NextRace ==
    \/ \E s \in TenantSlugs : CreateProject("Acme", "desc", s, NoFault)
    \/ \E r \in Requests, t \in TenantArgs, e \in Emails, f \in {NoFault, "find", "hash"} :
          CreateProjectUserLookup(r, t, e, "secret", "Ann", "Lee", 81, f)
    \/ \E r \in inflight, f \in {NoFault, "insert"} : CreateProjectUserInsert(r, f)
    \/ \E t \in TenantSlugs, id \in UserIDArgs : DeleteProjectUser(t, id, NoFault)

SpecRace == Init /\ [][NextRace]_vars

\* CreateProject requests whose steps interleave, and DeleteProject
NextSlugRace ==
    \/ \E r \in Requests, s \in TenantSlugs, f \in {NoFault, "check"} :
          CreateProjectCheck(r, "Acme", "desc", s, f)
    \/ \E r \in inflight, f \in {NoFault, "insert"} : CreateProjectInsert(r, f)
    \/ \E r \in inflight, f \in {NoFault, "index_email"} : CreateProjectCreateTable(r, f)
    \/ \E id \in ProjectIDArgs : DeleteProject(id, NoFault)

SpecSlugRace == Init /\ [][NextSlugRace]_vars

\* the role the OAuth sign-in assigns to the users it creates
OAuthRoleArgs == {83}

NextUpsert ==
    \/ \E s \in TenantSlugs : CreateProject("Acme", "desc", s, NoFault)
    \/ \E t \in TenantSlugs, e \in Emails :
          CreateProjectUser(t, e, "secret", "Ann", "Lee", 81, NoFault)
    \/ \E t \in TenantSlugs, id \in UserIDArgs, active \in BOOLEAN :
          UpdateProjectUser(t, id, "Ann", "Lee", active, NoFault)
    \/ \E t \in TenantSlugs, id \in UserIDArgs : DeleteProjectUser(t, id, NoFault)
    \/ \E t \in TenantArgs, e \in Emails, r \in OAuthRoleArgs, f \in {NoFault, "save"} :
          CreateOrUpdateOAuthProjectUser(t, ProviderUserInfo(e), r, f)

SpecUpsert == Init /\ [][NextUpsert]_vars

NextProfile ==
    \/ EnsureSuperUser(DefaultSuperUserConfig, NoFault, 0)
    \/ \E s \in TenantSlugs : CreateProject("Acme", "desc", s, NoFault)
    \/ \E t \in TenantSlugs, e \in Emails :
          CreateProjectUser(t, e, "secret", "Ann", "Lee", 81, NoFault)
    \/ \E t \in TenantSlugs, id \in UserIDArgs, fn \in {"Ann", "Anna"}, a \in BOOLEAN,
          f \in {NoFault, "save"} : UpdateProjectUser(t, id, fn, "Lee", a, f)
    \/ \E id \in GlobalUserIDArgs, fn \in {"Super", "Sam"}, a \in BOOLEAN,
          f \in {NoFault, "save"} : UpdateUser(id, fn, "User", a, f)

SpecProfile == Init /\ [][NextProfile]_vars

----------------------------------------------------------------------------
(* Properties of provisioning *)

\* the tenant table of slug s exists
TableExists(s) == CreateProjectTableName(s) \in DOMAIN tables

\* a non-deleted project row with slug s exists
RowExists(s) == \E p \in Live(projects) : p.UniqueID = s

\* C1: in every state between calls, a non-deleted project row with slug s
\* exists if and only if the table project_<s>_users exists
C1_RowIffTable ==
    /\ \A p \in Live(projects) : TableExists(p.UniqueID)
    /\ \A t \in DOMAIN tables :
          \E p \in Live(projects) : CreateProjectTableName(p.UniqueID) = t

\* C2: after a CreateProject in which the creation of the tenant table or of
\* one of its indexes failed, no project row with that slug exists, and the
\* call returned an error
C2_NoRowAfterFailedProvisioning ==
    (lastCall.op = "CreateProject"
        /\ lastCall.fault \in {"table_lost", "table", "index_email", "index_oauth"})
    => (~RowExists(lastCall.project) /\ lastCall.err # NoError)

\* C3: after a DeleteProject in which dropping the tenant table failed, the
\* project row still exists, neither deleted nor tombstoned
C3_RowSurvivesFailedDrop ==
    (lastCall.op = "DeleteProject" /\ lastCall.fault \in {"drop_lost", "drop"})
    => \E p \in Live(projects) : p.ID = lastCall.id

\* C5: a CreateProject during which the datastore does not fail returns the
\* slug-conflict error if a non-deleted project with that slug exists and
\* succeeds otherwise (a project removed by DeleteProject is no conflict), and
\* a conflicting call changes neither the project rows nor the tenant tables
C5_ConflictIffLiveSlug ==
    [][\A n \in Names, d \in Descriptions, s \in Slugs :
          CreateProject(n, d, s, NoFault) =>
             /\ lastCall'.err = (IF RowExists(s) THEN ErrProjectExists ELSE NoError)
             /\ RowExists(s) => UNCHANGED <<projects, tables>>]_vars

\* C6: after a successful CreateProject with slug s the table project_<s>_users
\* exists; after a successful DeleteProject the table of the deleted project
\* does not exist; and GetProject for the id of a deleted project fails with
\* not-found
C6_CreateThenDelete ==
    /\ (lastCall.op = "CreateProject" /\ lastCall.err = NoError)
          => TableExists(lastCall.project)
    /\ (lastCall.op = "DeleteProject" /\ lastCall.err = NoError)
          => \A p \in projects : p.ID = lastCall.id => (p.Deleted /\ ~TableExists(p.UniqueID))
    /\ (lastCall.op = "GetProject" /\ lastCall.fault = NoFault
          /\ \E p \in projects : p.ID = lastCall.id /\ p.Deleted)
          => lastCall.err = ErrProjectNotFound

\* C6 witness: a project that CreateProject provisioned and DeleteProject
\* removed is looked up by its id
C6_Witness ==
    /\ lastCall.op = "GetProject"
    /\ lastCall.err = ErrProjectNotFound
    /\ \E p \in projects : p.ID = lastCall.id /\ p.Deleted /\ ~TableExists(p.UniqueID)

----------------------------------------------------------------------------
(* Properties of the tenant user store *)

StoreOps ==
    {"CreateProjectUser", "GetProjectUser", "GetProjectUserByEmail",
     "ListProjectUsers", "UpdateProjectUser", "DeleteProjectUser"}

\* the stored rows, tombstones included, of the table CreateProject made for
\* slug s
TenantRows(s) ==
    IF CreateProjectTableName(s) \in DOMAIN tables
    THEN tables[CreateProjectTableName(s)] ELSE {}

C7_EmailUniquePerTenant ==
    [][\A t \in TenantSlugs, e \in Emails :
          (/\ CreateProjectTableName(t) \in DOMAIN tables
           /\ CreateProjectUser(t, e, "secret", "Ann", "Lee", 81, NoFault))
          => LET own == CreateProjectTableName(t) IN
             /\ (\E u \in tables[own] : u.Email = e /\ ~u.Deleted)
                   => (lastCall'.err = ErrUserExists /\ tables' = tables)
             /\ (~\E u \in tables[own] : u.Email = e)
                   => (/\ lastCall'.err = NoError
                       /\ \E u \in tables'[own] :
                             /\ u.Email = e
                             /\ tables' = [tables EXCEPT ![own] = @ \cup {u}])]_vars

\* C7 witness: the address is in use in both tenants, and a further creation
\* with it was refused
C7_Witness ==
    /\ lastCall.op = "CreateProjectUser"
    /\ lastCall.err = ErrUserExists
    /\ \A t \in TenantSlugs :
          \E u \in TenantRows(t) : u.Email = lastCall.email /\ ~u.Deleted

\* C8: a call of the user store for one project reads and writes only that
\* project's table: every other table is left as it was, a returned or listed
\* row is a row of that table, and an id or address that is only in another
\* project's table is answered with not-found
C8_TenantIsolation ==
    [][lastCall'.op \in StoreOps =>
          LET own == CreateProjectTableName(lastCall'.project)
              ownRows == IF own \in DOMAIN tables THEN tables[own] ELSE {}
          IN  /\ DOMAIN tables' = DOMAIN tables
              /\ \A n \in DOMAIN tables \ {own} : tables'[n] = tables[n]
              /\ (lastCall'.err = NoError /\ lastCall'.ret # 0)
                    => \E u \in (IF own \in DOMAIN tables' THEN tables'[own] ELSE {}) :
                          u.ID = lastCall'.ret
              /\ lastCall'.list \subseteq {u.ID : u \in ownRows}
              /\ (/\ lastCall'.op \in {"GetProjectUser", "UpdateProjectUser", "DeleteProjectUser"}
                  /\ lastCall'.fault = NoFault
                  /\ own \in DOMAIN tables
                  /\ ~\E u \in ownRows : u.ID = lastCall'.id)
                    => (lastCall'.err = ErrUserNotFound /\ tables' = tables)
              /\ (/\ lastCall'.op = "GetProjectUserByEmail"
                  /\ lastCall'.fault = NoFault
                  /\ own \in DOMAIN tables
                  /\ ~\E u \in ownRows : u.Email = lastCall'.email)
                    => lastCall'.err = ErrUserNotFound]_vars

\* C8 witness: a user of one tenant was looked up by id in another tenant
\* and not found
C8_Witness ==
    /\ lastCall.op = "GetProjectUser"
    /\ lastCall.err = ErrUserNotFound
    /\ CreateProjectTableName(lastCall.project) \in DOMAIN tables
    /\ \E n \in DOMAIN tables \ {CreateProjectTableName(lastCall.project)} :
          \E u \in tables[n] : u.ID = lastCall.id /\ ~u.Deleted

\* C9: after a successful OAuth upsert the tenant stores exactly one row with
\* the address, the row the call returned; and an upsert with the same
\* userInfo for the same tenant that directly follows a successful one
\* succeeds, returns the same user id and leaves exactly one row with the
\* address
C9_IdempotentUpsert ==
    /\ []((lastCall.op = "CreateOrUpdateOAuthProjectUser" /\ lastCall.err = NoError)
            => /\ Cardinality({u \in TenantRows(lastCall.project) :
                                  u.Email = lastCall.email}) = 1
               /\ \A u \in TenantRows(lastCall.project) :
                     u.Email = lastCall.email => u.ID = lastCall.ret)
    /\ [][\A t \in TenantArgs, e \in Emails, r \in RoleArgs :
            (/\ lastCall.op = "CreateOrUpdateOAuthProjectUser"
             /\ lastCall.err = NoError
             /\ lastCall.project = t
             /\ lastCall.email = e
             /\ CreateOrUpdateOAuthProjectUser(t, ProviderUserInfo(e), r, NoFault))
            => (/\ lastCall'.err = NoError
                /\ lastCall'.ret = lastCall.ret
                /\ Cardinality({u \in tables'[CreateProjectTableName(t)] :
                                   u.Email = e}) = 1)]_vars

\* C9 witness: a row the upsert created (it has no password) was rewritten by
\* a later upsert, which returned its id
C9_Witness ==
    /\ lastCall.op = "CreateOrUpdateOAuthProjectUser"
    /\ lastCall.err = NoError
    /\ \E u \in TenantRows(lastCall.project) :
          /\ u.ID = lastCall.ret
          /\ u.Email = lastCall.email
          /\ u.Password = ""
          /\ u.Updated

----------------------------------------------------------------------------
(* Properties of authorization *)

\* C10: a request of an authenticated user whose role is named SuperAdmin,
\* during which the datastore does not fail, is passed to the next handler
\* for every resource and action, whether or not a policy row exists for them
C10_SuperAdminBypass ==
    (/\ lastCall.op = "PolicyMiddleware"
     /\ lastCall.fault = NoFault
     /\ lastCall.id # 0
     /\ \E r \in roles : r.ID = lastCall.role /\ ~r.Deleted /\ r.Name = "SuperAdmin")
    => lastCall.err = NoError

\* C10 witness: the super role's user was let through for a resource no
\* policy row names
C10_Witness ==
    /\ lastCall.op = "PolicyMiddleware"
    /\ lastCall.err = NoError
    /\ \E r \in roles : r.ID = lastCall.role /\ ~r.Deleted /\ r.Name = "SuperAdmin"
    /\ ~\E p \in policies : p.Resource = lastCall.resource

\* the last call is a request of a user in the context whose role is stored,
\* not deleted and not the super role, during which the datastore did not fail
OrdinaryRequest ==
    /\ lastCall.op = "PolicyMiddleware"
    /\ lastCall.fault = NoFault
    /\ lastCall.id # 0
    /\ \E r \in roles : r.ID = lastCall.role /\ ~r.Deleted /\ r.Name # "SuperAdmin"

\* the policies of the role of the last request, not deleted
RequestPolicies == {p \in policies : ~p.Deleted /\ p.RolesId = lastCall.role}

\* C11: for a role other than the super role, a policy with action "*" and
\* effect allow on a resource lets every action on that resource through, and
\* a role whose only policies are for other resources is denied
C11_WildcardScopedToResource ==
    OrdinaryRequest =>
       /\ (\E p \in RequestPolicies :
              p.Resource = lastCall.resource /\ p.Action = "*" /\ p.Effect = "allow")
             => lastCall.err = NoError
       /\ (\A p \in RequestPolicies : p.Resource # lastCall.resource)
             => lastCall.err = BodyDenied

\* C11 witness: a delete on projects was let through by the wildcard policy
\* of a role that has no policy for roles
C11_Witness ==
    /\ OrdinaryRequest
    /\ lastCall.resource = "projects"
    /\ lastCall.action = "delete"
    /\ lastCall.err = NoError
    /\ \A p \in RequestPolicies :
          /\ p.Resource # "roles"
          /\ p.Resource = "projects" => p.Action = "*"

\* C12: a request of a user of a role other than the super role, for which
\* the role has no policy with effect allow on the resource whose action is
\* "*" or the requested one, is answered with "Permission denied" and does
\* not reach the next handler
C12_DenyByDefault ==
    (/\ OrdinaryRequest
     /\ ~\E p \in RequestPolicies :
           /\ p.Resource = lastCall.resource
           /\ p.Effect = "allow"
           /\ p.Action \in {"*", lastCall.action})
    => lastCall.err = BodyDenied

\* C12 witness: a request on a resource for which the role has policies, all
\* of them with effect deny, was denied
C12_Witness ==
    /\ OrdinaryRequest
    /\ lastCall.err = BodyDenied
    /\ \E p \in RequestPolicies : p.Resource = lastCall.resource
    /\ \A p \in RequestPolicies : p.Resource = lastCall.resource => p.Effect = "deny"

----------------------------------------------------------------------------
(* Properties of the bootstrap *)

\* the stored rows, tombstones included, a run of EnsureSuperUser looks for
BootstrapRows ==
    [role |-> {r \in roles : r.Name = "SuperAdmin"},
     policy1 |-> {p \in policies : p.Name = "AllPoliciesAccess"},
     policy2 |-> {p \in policies : p.Name = "AllRolesAccess"},
     policy3 |-> {p \in policies : p.Name = "AllProjectsAccess"},
     project |-> {p \in projects : p.UniqueID = "default"},
     user |-> {u \in users : u.Email = DefaultSuperUserConfig.Email}]

\* C13: after a run of EnsureSuperUser that returned no error there is
\* exactly one role named SuperAdmin, one of each of the three policies, one
\* project with slug default and one bootstrap user; and a run with the same
\* config right after such a run returns no error, inserts nothing and
\* leaves every table as it was
C13_BootstrapIdempotent ==
    /\ []((lastCall.op = "EnsureSuperUser" /\ lastCall.err = NoError)
            => \A k \in DOMAIN BootstrapRows :
                  /\ Cardinality(BootstrapRows[k]) = 1
                  /\ \A r \in BootstrapRows[k] : ~r.Deleted)
    /\ [][(/\ lastCall.op = "EnsureSuperUser"
           /\ lastCall.err = NoError
           /\ EnsureSuperUser(DefaultSuperUserConfig, NoFault, 0))
          => (/\ lastCall'.err = NoError
              /\ lastCall'.ret = 0
              /\ UNCHANGED <<projects, tables, roles, policies, users>>)]_vars

\* C13 witness: a run that found the whole bootstrap in place and inserted
\* nothing
C13_Witness ==
    /\ lastCall.op = "EnsureSuperUser"
    /\ lastCall.err = NoError
    /\ lastCall.ret = 0
    /\ \A k \in DOMAIN BootstrapRows : Cardinality(BootstrapRows[k]) = 1

-----------------------------------------------------------------------------
(* Properties of Login and of the authentication middleware *)

\* the non-deleted users with the email of the last call
LoginUsers == {u \in users : ~u.Deleted /\ u.Email = lastCall.email}

\* C14: a Login during which the datastore did not fail, for an unknown
\* email, for an inactive account or for an active account with a wrong
\* password, returns "invalid email or password" and no token
C14_LoginFailuresIndistinguishable ==
    (/\ lastCall.op = "Login"
     /\ lastCall.fault = NoFault
     /\ \/ LoginUsers = {}
        \/ \E u \in LoginUsers : ~u.Active
        \/ \E u \in LoginUsers :
              u.Active /\ u.Password # HashPassword(lastCall.password))
        => /\ lastCall.err = "invalid email or password"
           /\ lastCall.token = NoToken

\* C15: a request whose Authorization header is "Bearer " followed by a
\* token Login issued (signed with the service's key), before the token's
\* expiry, for a user that is stored, not deleted and active, reaches the
\* next handler with that user in its context
C15_IssuedTokenAccepted ==
    (/\ lastCall.op = "AuthMiddleware"
     /\ lastCall.fault = NoFault
     /\ lastCall.header.scheme = "Bearer"
     /\ lastCall.header.token.Key = jwtSecret
     /\ lastCall.elapsed < lastCall.header.token.ExpiresIn
     /\ \E u \in users :
           ~u.Deleted /\ u.Active /\ u.ID = lastCall.header.token.UserID)
        => /\ lastCall.err = NoError
           /\ lastCall.ret = 200
           /\ lastCall.id = lastCall.header.token.UserID

-----------------------------------------------------------------------------
(* Properties of the OAuth callback *)

\* C16: a callback with a state the login leg encoded for a provisioned
\* project, a code the provider accepts and user info returned, leaves a
\* user with the reported e-mail in the table of that project and returns
\* a token for that user
C16_CallbackUpsertsIntoStateProject ==
    \A p \in TenantSlugs, n \in Nonces :
        (/\ lastCall.op = "OAuthEndpointCallback"
         /\ lastCall.fault = NoFault
         /\ lastCall.provider \in Providers
         /\ lastCall.code \in AcceptedCodes
         /\ lastCall.state = encodeOAuthState(p, n)
         /\ CreateProjectTableName(p) \in DOMAIN tables)
            => /\ lastCall.err = NoError
               /\ lastCall.token # NoToken
               /\ \E u \in tables[CreateProjectTableName(p)] :
                     /\ ~u.Deleted
                     /\ u.Email = lastCall.email
                     /\ u.ID = lastCall.id
                     /\ u.ID = lastCall.token.UserID

\* the errors with which decodeOAuthCallbackRequest rejects a request
DecodeErrors ==
    {"missing code parameter", "missing state parameter", "invalid state parameter"}

\* the callback has no code, or no state, or a state that is not the
\* base64 encoding of a text, or of a text that is not a JSON object
Malformed(call) ==
    \/ call.code = ""
    \/ call.state = ""
    \/ call.state \notin {row[2] : row \in Base64Table}
    \/ \E row \in Base64Table : row[2] = call.state /\ row[1] = "[1]"

\* C17: a callback without code, without state, or with a state that is
\* not base64 or does not decode to the state structure is rejected by the
\* request decoder: the provider's exchange is not called and no user row
\* is created or changed
C17_MalformedCallbackRejected ==
    /\ [](lastCall.op = "OAuthEndpointCallback" /\ Malformed(lastCall)
             => /\ lastCall.err \in DecodeErrors
                /\ ~lastCall.exchanged
                /\ lastCall.id = 0
                /\ lastCall.token = NoToken)
    /\ [][lastCall'.op = "OAuthEndpointCallback" /\ Malformed(lastCall')
             => tables' = tables /\ users' = users]_vars

C17_Witness ==
    /\ lastCall.op = "OAuthEndpointCallback"
    /\ lastCall.provider \in Providers
    /\ lastCall.code \in AcceptedCodes
    /\ lastCall.state = "WzFd"
    /\ lastCall.err = "invalid state parameter"
    /\ \E t \in DOMAIN tables : tables[t] # {}

-----------------------------------------------------------------------------
(* Properties of the OAuth callback that verifies a stored state *)

BrowserCallbacks == {"handleOAuthCallback", "OAuthCallback"}

\* the state that the cookies in jar hold for the browser of the call, in
\* the cookie the handler of the call reads
StoredState(call, jar) ==
    IF call.op = "handleOAuthCallback"
    THEN jar[call.browser].oauth_state
    ELSE jar[call.browser].session.oauth_state

\* C18: a callback reaches the provider's code exchange only if the state
\* in the request equals the state stored for the browser by its login
\* leg; when the browser holds no state or another one, the callback is
\* rejected, nothing is exchanged and no user row is created or changed
C18_StateMustMatchStored ==
    /\ [](lastCall.op \in BrowserCallbacks /\ lastCall.exchanged
             => lastCall.stored # "" /\ lastCall.stored = lastCall.state)
    /\ [][lastCall'.op \in BrowserCallbacks
             => /\ lastCall'.stored = StoredState(lastCall', cookies)
                /\ (lastCall'.stored = "" \/ lastCall'.stored # lastCall'.state)
                       => /\ ~lastCall'.exchanged
                          /\ lastCall'.err # NoError
                          /\ users' = users
                          /\ tables' = tables]_vars

C18_Witness ==
    /\ lastCall.op = "OAuthCallback"
    /\ lastCall.code \in AcceptedCodes
    /\ lastCall.state \in LoginStates
    /\ lastCall.stored = ""
    /\ lastCall.err = "Invalid state"
    /\ \E b \in Browsers : cookies[b].session.oauth_state = lastCall.state
    /\ users # {}

-----------------------------------------------------------------------------
(* Properties of CreateProjectUser requests that run at the same time *)

\* C19: when the INSERT of a request that passed the lookup runs after a
\* request for the same e-mail address and tenant has stored its row, and
\* the datastore does not fail otherwise, the request returns the conflict
\* error of a sequential duplicate and the table keeps exactly one such row
C19_RaceLoserGetsConflict ==
    [][\A t \in DOMAIN tables :
          (/\ lastCall'.op = "CreateProjectUserInsert"
           /\ lastCall'.fault = NoFault
           /\ t = getProjectUserTableName(lastCall'.project)
           /\ \E u \in tables[t] : ~u.Deleted /\ u.Email = lastCall'.email)
              => /\ lastCall'.err = "user with this email already exists in this project"
                 /\ t \in DOMAIN tables'
                 /\ Cardinality({u \in tables'[t] :
                                    ~u.Deleted /\ u.Email = lastCall'.email}) = 1]_vars

-----------------------------------------------------------------------------
(* Properties of the OAuth upsert's effects *)

\* C20: a successful OAuth upsert that finds a non-deleted user with the
\* e-mail address in the tenant table rewrites that row only, with the
\* names and the OAuth linkage of the user info and with its id, e-mail
\* address, role id, active flag and password hash as they were; one that
\* finds none adds exactly one row, which is active, has the supplied role,
\* the OAuth linkage of the user info and no password
C20_UpsertFrame ==
    [][\A t \in DOMAIN tables :
          (/\ lastCall'.op = "CreateOrUpdateOAuthProjectUser"
           /\ lastCall'.err = NoError
           /\ t = getProjectUserTableName(lastCall'.project))
              => LET info == lastCall'.info
                     before == {u \in tables[t] : ~u.Deleted /\ u.Email = info.Email}
                 IN  /\ DOMAIN tables' = DOMAIN tables
                     /\ \A o \in DOMAIN tables \ {t} : tables'[o] = tables[o]
                     /\ IF before # {}
                        THEN \E u \in before, v \in tables'[t] :
                                /\ tables'[t] \ {v} = tables[t] \ {u}
                                /\ v.ID = u.ID /\ v.ID = lastCall'.ret
                                /\ v.Email = u.Email
                                /\ v.RoleId = u.RoleId
                                /\ v.Active = u.Active
                                /\ v.Password = u.Password
                                /\ v.ProjectId = u.ProjectId
                                /\ ~v.Deleted
                                /\ v.FirstName = info.FirstName
                                /\ v.LastName = info.LastName
                                /\ v.OAuthID = info.ID
                                /\ v.OAuthType = info.Provider
                        ELSE \E v \in tables'[t] \ tables[t] :
                                /\ tables'[t] = tables[t] \cup {v}
                                /\ v.ID = lastCall'.ret
                                /\ v.Email = info.Email
                                /\ v.Active
                                /\ ~v.Deleted
                                /\ v.RoleId = lastCall'.role
                                /\ v.OAuthID = info.ID
                                /\ v.OAuthType = info.Provider
                                /\ v.FirstName = info.FirstName
                                /\ v.LastName = info.LastName
                                /\ v.Password = ""]_vars

\* C20 witness: the upsert rewrote a deactivated user that has a password
\* and another role than the one supplied
C20_Witness ==
    /\ lastCall.op = "CreateOrUpdateOAuthProjectUser"
    /\ lastCall.err = NoError
    /\ \E t \in DOMAIN tables : \E u \in tables[t] :
          /\ u.ID = lastCall.ret
          /\ ~u.Active
          /\ u.Password # ""
          /\ u.RoleId # lastCall.role
          /\ u.OAuthID = lastCall.info.ID

-----------------------------------------------------------------------------
(* Properties of the profile updates *)

\* row v is row u with at most the names, the active flag and the
\* updated-at changed
ProfileUpdateOf(v, u) ==
    /\ DOMAIN v = DOMAIN u
    /\ \A k \in DOMAIN u \ {"FirstName", "LastName", "Active", "Updated"} : v[k] = u[k]

\* C21: a successful UpdateProjectUser rewrites the addressed non-deleted
\* row of the tenant table with at most the names, the active flag and the
\* updated-at changed, and leaves every other row of every table as it was;
\* a failed one (not found included) changes nothing; the same holds of
\* UpdateUser on table users
C21_UpdateChangesProfileOnly ==
    [][/\ lastCall'.op = "UpdateProjectUser" =>
             /\ users' = users
             /\ IF lastCall'.err = NoError
                THEN \E t \in DOMAIN tables :
                        /\ t = getProjectUserTableName(lastCall'.project)
                        /\ DOMAIN tables' = DOMAIN tables
                        /\ \A o \in DOMAIN tables \ {t} : tables'[o] = tables[o]
                        /\ \E u \in tables[t], v \in tables'[t] :
                              /\ u.ID = lastCall'.id /\ ~u.Deleted
                              /\ ProfileUpdateOf(v, u)
                              /\ tables'[t] \ {v} = tables[t] \ {u}
                ELSE tables' = tables
       /\ lastCall'.op = "UpdateUser" =>
             /\ tables' = tables
             /\ IF lastCall'.err = NoError
                THEN \E u \in users, v \in users' :
                        /\ u.ID = lastCall'.id /\ ~u.Deleted
                        /\ ProfileUpdateOf(v, u)
                        /\ users' \ {v} = users \ {u}
                ELSE users' = users]_vars

\* C21 witness: a tenant user was renamed and deactivated while another
\* tenant table holds a row
C21_Witness ==
    /\ lastCall.op = "UpdateProjectUser"
    /\ lastCall.err = NoError
    /\ \E t \in DOMAIN tables : \E u \in tables[t] :
          /\ u.ID = lastCall.id
          /\ u.FirstName = "Anna" /\ ~u.Active /\ u.Updated
          /\ u.Password = HashPassword("secret") /\ u.RoleId = 81
          /\ \E o \in DOMAIN tables \ {t} : tables[o] # {}

-----------------------------------------------------------------------------
(* Properties of DeleteProjectUser *)

\* C22: a successful DeleteProjectUser keeps the addressed row and sets its
\* tombstone, leaving every other row as it was; when the tenant table
\* holds no non-deleted row with the id (the row was deleted before, or
\* never existed), GetProjectUser and DeleteProjectUser fail with "user not
\* found in this project" and change nothing; ListProjectUsers lists no
\* tombstoned row
C22_SoftDelete ==
    [][\A t \in DOMAIN tables :
          t = getProjectUserTableName(lastCall'.project) =>
             /\ (/\ lastCall'.op = "DeleteProjectUser"
                 /\ lastCall'.err = NoError)
                    => \E u \in tables[t] :
                          /\ u.ID = lastCall'.id /\ ~u.Deleted
                          /\ tables' = [tables EXCEPT ![t] =
                                            (@ \ {u}) \cup {[u EXCEPT !.Deleted = TRUE]}]
             /\ (/\ lastCall'.op \in {"GetProjectUser", "DeleteProjectUser"}
                 /\ lastCall'.fault = NoFault
                 /\ ~\E u \in tables[t] : u.ID = lastCall'.id /\ ~u.Deleted)
                    => /\ lastCall'.err = "user not found in this project"
                       /\ tables' = tables
             /\ (/\ lastCall'.op = "ListProjectUsers"
                 /\ lastCall'.err = NoError)
                    => \A u \in tables[t] : u.Deleted => u.ID \notin lastCall'.list]_vars

\* C22 witness: a second DeleteProjectUser for a user that is retained with
\* its tombstone was answered with not-found
C22_Witness ==
    /\ lastCall.op = "DeleteProjectUser"
    /\ lastCall.fault = NoFault
    /\ lastCall.err = "user not found in this project"
    /\ \E t \in DOMAIN tables :
          /\ t = getProjectUserTableName(lastCall.project)
          /\ \E u \in tables[t] : u.ID = lastCall.id /\ u.Deleted

-----------------------------------------------------------------------------
(* Properties of the attachment of policies to roles *)

\* C23: in every reachable state each existing policy is attached to
\* exactly one existing role: its RolesId is the id of exactly one
\* non-deleted role
C23_PolicyHasExactlyOneRole ==
    \A p \in policies :
       ~p.Deleted => Cardinality({r \in roles : ~r.Deleted /\ r.ID = p.RolesId}) = 1

-----------------------------------------------------------------------------
(* Properties of concurrent CreateProject requests *)

\* C24: when CreateProject requests with the same slug are in flight
\* together, each having passed the lookup, no two project rows ever share
\* the slug; the request whose table is built returns with its row and the
\* table project_<slug>_users both in place and nothing else changed; the
\* request whose INSERT is refused leaves every project row and every
\* tenant table as it was: it adds no row and drops or builds no table
C24_OneWinnerPerSlug ==
    /\ [](\A p \in projects, q \in projects : p.UniqueID = q.UniqueID => p = q)
    /\ [][/\ (/\ lastCall'.op = "CreateProjectCreateTable"
              /\ lastCall'.err = NoError)
                 => \E p \in projects' :
                       /\ p.ID = lastCall'.ret /\ p.UniqueID = lastCall'.project
                       /\ ~p.Deleted
                       /\ projects' \ {p} = projects
                       /\ \A q \in projects : q.UniqueID # p.UniqueID
                       /\ DOMAIN tables' =
                             DOMAIN tables \cup {"project_" \o p.UniqueID \o "_users"}
                       /\ "project_" \o p.UniqueID \o "_users" \notin DOMAIN tables
                       /\ \A t \in DOMAIN tables : tables'[t] = tables[t]
          /\ (/\ lastCall'.op = "CreateProjectInsert"
              /\ lastCall'.err # NoError)
                 => /\ projects' = projects
                    /\ tables' = tables
                    /\ \A r \in inflight' : r.request # lastCall'.request]_vars

\* C24 witness: two requests for one slug had both passed the lookup; one
\* built the row and the table, and the INSERT of the other was then refused
C24_Witness ==
    /\ lastCall.op = "CreateProjectInsert"
    /\ lastCall.fault = NoFault
    /\ lastCall.err = ErrCreateProject
    /\ inflight = {}
    /\ \E p \in projects :
          /\ p.UniqueID = lastCall.project /\ ~p.Deleted
          /\ "project_" \o p.UniqueID \o "_users" \in DOMAIN tables
          /\ Cardinality({q \in projects : q.UniqueID = p.UniqueID}) = 1

-----------------------------------------------------------------------------
(* Properties of the use of a stored OAuth state *)

\* C25: the state kept for a browser is single-use: once a callback of the
\* browser has been accepted for the stored state (the state matched and the
\* handler went on to the exchange of the code), the next callback of the
\* same browser that presents the same state is rejected before the
\* exchange
C25_StoredStateSingleUse ==
    [][(/\ lastCall.op \in BrowserCallbacks
        /\ lastCall.exchanged
        /\ lastCall'.op = lastCall.op
        /\ lastCall'.browser = lastCall.browser
        /\ lastCall'.state = lastCall.state)
           => ~lastCall'.exchanged]_vars

-----------------------------------------------------------------------------
(* Properties of the origin of a self-encoded OAuth state *)

\* C26: the callback leg accepts a state only if an earlier login leg of
\* this service produced it: a callback that arrives when no login leg has
\* run yet, with a well-formed state the caller made up from a project id
\* and a nonce, is rejected before the code is exchanged
C26_FabricatedStateRejected ==
    [][(/\ lastCall.op = "none"
        /\ lastCall'.op = "OAuthEndpointCallback"
        /\ decodeOAuthState(lastCall'.state).ok)
           => ~lastCall'.exchanged]_vars

-----------------------------------------------------------------------------
(* Properties of the role ids that users carry *)

\* C27: in every reachable state the role id of every non-deleted user, in
\* table users and in every tenant table, is the id of a non-deleted role:
\* user creation refuses a role id of no role and DeleteRole refuses a role
\* that such a user carries
C27_UsersReferToLiveRoles ==
    \A u \in users \cup UNION {tables[t] : t \in DOMAIN tables} :
       ~u.Deleted => \E r \in roles : ~r.Deleted /\ r.ID = u.RoleId

-----------------------------------------------------------------------------
(* Properties of the revocation of access *)

\* C28: once UpdateUser has set a user inactive or DeleteUser has deleted
\* it, a request that carries a token or a session issued to that user is
\* rejected by the authentication middleware: the middleware does not hand
\* the request to the guarded handler with that user
C28_RevokedUserRejected ==
    [][(/\ lastCall.op \in {"UpdateUser", "DeleteUser"}
        /\ lastCall.err = NoError
        /\ ~\E u \in users : u.ID = lastCall.id /\ ~u.Deleted /\ u.Active
        /\ lastCall'.op \in {"AuthMiddleware", "RequireAuthentication"})
           => ~(lastCall'.ret = 200 /\ lastCall'.id = lastCall.id)]_vars

-----------------------------------------------------------------------------
(* Properties of accounts without a password *)

\* C29: a user the OAuth upsert creates is stored without a password and
\* keeps none, and password Login never returns a token for a user without
\* a password, whatever password is supplied, the empty one included: it
\* answers with invalid credentials, or with inactive account
C29_NoPasswordNoLogin ==
    /\ []((/\ lastCall.op = "Login"
           /\ lastCall.fault = NoFault
           /\ \E u \in users : ~u.Deleted /\ u.Email = lastCall.email /\ u.Password = "")
              => /\ lastCall.token = NoToken
                 /\ lastCall.err \in {"invalid email or password", "account is inactive"})
    /\ [][/\ lastCall'.op \in {"CreateOrUpdateOAuthUser", "OAuthCallback"}
             => \A v \in users' :
                   (\A u \in users : u.ID # v.ID) => v.Password = ""
          /\ \A u \in users, v \in users' :
                (u.ID = v.ID /\ u.Password = "") => v.Password = ""]_vars

\* C29 witness: Login with the empty password, on an active account that
\* the OAuth upsert created and that has a role, was refused
C29_Witness ==
    /\ lastCall.op = "Login"
    /\ lastCall.fault = NoFault
    /\ lastCall.password = ""
    /\ lastCall.err = "invalid email or password"
    /\ \E u \in users :
          /\ ~u.Deleted /\ u.Email = lastCall.email
          /\ u.Password = "" /\ u.Active
          /\ \E r \in roles : ~r.Deleted /\ r.ID = u.RoleId

-----------------------------------------------------------------------------
(* Properties of the e-mail addresses of deleted tenant users *)

\* C30: in every reachable state a tenant table holds at most one row per
\* e-mail address, tombstoned rows counted; once DeleteProjectUser has
\* tombstoned the row with an address, a CreateProjectUser or an OAuth
\* upsert with that address in the same tenant is rejected and leaves the
\* tables as they were: no second row, and the tombstoned row stays deleted
C30_OneRowPerEmail ==
    /\ [](\A t \in DOMAIN tables : \A u \in tables[t], v \in tables[t] :
             u.Email = v.Email => u = v)
    /\ [][\A t \in DOMAIN tables :
             (/\ lastCall'.op \in {"CreateProjectUser", "CreateOrUpdateOAuthProjectUser"}
              /\ t = "project_" \o lastCall'.project \o "_users"
              /\ \E u \in tables[t] : u.Deleted /\ u.Email = lastCall'.email)
                 => /\ lastCall'.err # NoError
                    /\ tables' = tables]_vars

\* C30 witness: an OAuth upsert with the address of a user that
\* DeleteProjectUser had removed was rejected
C30_Witness ==
    /\ lastCall.op = "CreateOrUpdateOAuthProjectUser"
    /\ lastCall.fault = NoFault
    /\ lastCall.err # NoError
    /\ \E t \in DOMAIN tables :
          /\ t = "project_" \o lastCall.project \o "_users"
          /\ \E u \in tables[t] : u.Deleted /\ u.Email = lastCall.email
          /\ Cardinality(tables[t]) = 1

====
